---- MODULE Spec2Model ----
(***************************************************************************)
(* A model of the partitioned generators of the superstore crate:          *)
(*   - the chunked streaming iterators   (rust/src/streaming.rs)           *)
(*   - the fork-join parallel generators (rust/src/parallel.rs)            *)
(*   - the process-wide worker pool      (rust/src/parallel.rs)            *)
(*   - the session simulation            (rust/src/ecommerce.rs)           *)
(*                                                                         *)
(* StdRng is modelled as a deterministic generator over a small state      *)
(* space: a value is drawn by advancing the state and reading it.  A u64   *)
(* seed is kept at its width as four 16-bit limbs, most significant first. *)
(* Calendar dates are day numbers counted from 1 January of the current    *)
(* year; the clock (today) is an input that is fixed during a run.         *)
(***************************************************************************)
EXTENDS Integers, Sequences, FiniteSets, TLC

VARIABLES
    today,      \* Utc::now().date() as a day of the current year
    seed0,      \* streaming: the seed both iterators were constructed with
    iters,      \* streaming: the iterators under comparison, 1..2
    outs,       \* streaming: per iterator, the rows yielded so far, concatenated
    lens,       \* streaming: per iterator, the lengths of the chunks yielded
    pulls,      \* streaming: per iterator, the number of next() calls made
    ended,      \* streaming: per iterator, whether next() has returned None
    ncpu,       \* parallel: the hardware concurrency rayon defaults to
    pool,       \* parallel: rayon's global pool: whether it is built, and its size
    setCalls,   \* parallel: the number of set_num_threads calls made
    setRet,     \* parallel: what the latest set_num_threads call returned
    call,       \* parallel: the superstore_parallel / employees_parallel call
    workers,    \* parallel: per thread_idx, the state of the map closure
    completion, \* parallel: the thread_idx values in the order they finished
    result,     \* parallel: the Vec the call returned
    config,     \* sessions: the EcommerceConfig of the generate_sessions call
    mc,         \* sessions: the MarkovChain: its matrix and its cursor (0..8)
    sess,       \* sessions: the loop position and the locals of the iteration
    nsessions,  \* sessions: sessions.len()
    markov,     \* chain: a MarkovChain under test: labels, matrix and cursor
    label,      \* chain: the label the latest next() returned
    nexts,      \* chain: the number of next() calls made
    garch,      \* kernels: apply_garch_volatility: buffer, index and variance
    innov,      \* kernels: the arguments and the outcome of sample_innovation
    tsconfig,   \* series: the TimeseriesConfig of get_time_series_with_config
    ts,         \* series: the call: its position, random source and columns
    sscfg,      \* configured: the SuperstoreConfig of superstore_with_config
    ss,         \* configured: the call: its position, variates and rows
    kcall       \* calls: a function exercised on its own: arguments and outcome

streamVars == <<seed0, iters, outs, lens, pulls, ended>>
parVars == <<ncpu, pool, setCalls, setRet, call, workers, completion, result>>
sessVars == <<config, mc, sess, nsessions>>
chainVars == <<markov, label, nexts>>
kernVars == <<garch, innov>>
seriesVars == <<tsconfig, ts>>
cfgdVars == <<sscfg, ss>>
callVars == <<kcall>>
extVars == <<chainVars, kernVars, seriesVars, cfgdVars, callVars>>
vars == <<today, streamVars, parVars, sessVars, extVars>>


\* ---------------------------------------------------------------- bounds

MaxTotal == 4
MaxChunk == 3
MaxPulls == 6
MaxCount == 3
MaxThreads == 3
MaxSetCalls == 1
MaxEntropy == 1
MaxSessions == 2
RngMod == 251
MaxNexts == 3
MaxPer == 3
MaxCol == 2

Min(a, b) == IF a <= b THEN a ELSE b

\* ------------------------------------------------------------ u64 seeds

U64Zero == <<0, 0, 0, 0>>
U64FortyTwo == <<0, 0, 0, 42>>
U64Max == <<65535, 65535, 65535, 65535>>
U64MaxLessOne == <<65535, 65535, 65535, 65534>>

\* Option<u64>: None is the empty tuple, Some(s) the four limbs of s
NoSeed == <<>>

Seeds == {U64Zero, U64FortyTwo, U64MaxLessOne, U64Max}

\* ------------------------------------------------------------------ rng

\* StdRng::seed_from_u64
SeedFromU64(s) == (s[1] * 7 + s[2] * 5 + s[3] * 3 + s[4]) % RngMod

\* one step of the generator; the new state is also the value drawn
RngStep(x) == (x * 5 + 3) % RngMod

RECURSIVE Draws(_, _)
\* the next n values drawn from state x, in the order they are drawn
Draws(x, n) == IF n = 0 THEN <<>> ELSE <<RngStep(x)>> \o Draws(RngStep(x), n - 1)

\* ---------------------------------------------------------------- dates

\* random_date_this_year: gen_range(1..=365), one draw
random_date_this_year(rng) ==
    LET r == RngStep(rng) IN [rng |-> r, date |-> 1 + (r % 365)]

\* random_date_between: no draw when start >= today
random_date_between(rng, start, now) ==
    IF start >= now THEN [rng |-> rng, date |-> now]
    ELSE LET days_between == now - start IN
         IF days_between = 0 THEN [rng |-> rng, date |-> start]
         ELSE LET r == RngStep(rng) IN
              [rng |-> r, date |-> start + (r % (days_between + 1))]

\* random_date_30_years: gen_range(0..=30*365) days after today - 30*365
random_date_30_years(rng, now) ==
    LET r == RngStep(rng) IN
    [rng |-> r, date |-> (now - 30 * 365) + (r % (30 * 365 + 1))]

\* random_date_of_birth: between today - 70*365 and today - 18*365
random_date_of_birth(rng, now) ==
    LET r == RngStep(rng)
        min_date == now - 70 * 365
        max_date == now - 18 * 365
    IN [rng |-> r, date |-> min_date + (r % ((max_date - min_date) + 1))]

\* ----------------------------------------------------------------- rows

I32Max == 2147483647

\* `x as i32` of a usize
AsI32(x) == IF x <= I32Max THEN x ELSE (x - I32Max) - I32Max - 2

\* format!("Region {}", k) for k in 0..5
RegionName(k) ==
    <<"Region 0", "Region 1", "Region 2", "Region 3", "Region 4">>[k + 1]

\* The body of the row loop for a SuperstoreRow: the dates first, then the
\* fields in the order the struct expression evaluates them.  A field made
\* by the fake crate is one draw here.
\*   d[1] sector  d[2] industry  d[3..4] order_id  d[5] ship_mode
\*   d[6..9] customer_id  d[10] segment  d[11] city  d[12] state
\*   d[13] postal_code  d[14] region  d[15..32] product_id  d[33] item_price
\*   d[34] sales  d[35] quantity  d[36] discount  d[37] profit
SuperstoreRowGen(rng, row_id, now) ==
    LET od == random_date_this_year(rng)
        sd == random_date_between(od.rng, od.date, now)
        d == Draws(sd.rng, 37)
    IN [rng |-> d[37],
        row |-> [row_id |-> AsI32(row_id),
                 order_date |-> od.date,
                 ship_date |-> sd.date,
                 category |-> d[1] % 11,
                 order_id |-> <<10 + (d[3] % 89), 1000000 + (d[4] % 8999999)>>,
                 ship_mode |-> d[5] % 3,
                 segment |-> d[10] % 4,
                 region |-> RegionName(d[14] % 5),
                 sales |-> (1 + (d[34] % 100)) * 100,
                 quantity |-> (1 + (d[35] % 100)) * 10,
                 profit |-> d[37]]]

\* The body of the row loop for an EmployeeRow.
\*   d[1..2] employee_id  d[3] first_name  d[4] surname  d[5] prefix
\*   d[6] suffix  d[7] phone_number  d[8] email  d[9..11] ssn
\*   d[12..13] street  d[14] city  d[15] postal_code  d[16] region  d[17] state
EmployeeRowGen(rng, row_id, now) ==
    LET d == Draws(rng, 17)
        st == random_date_30_years(d[17], now)
        db == random_date_of_birth(st.rng, now)
    IN [rng |-> db.rng,
        row |-> [row_id |-> AsI32(row_id),
                 employee_id |-> <<10 + (d[1] % 89), 1000000 + (d[2] % 8999999)>>,
                 prefix |-> d[5] % 6,
                 suffix |-> d[6] % 4,
                 ssn |-> <<100 + (d[9] % 899), 10 + (d[10] % 89), 1000 + (d[11] % 8999)>>,
                 region |-> d[16] % 5,
                 start_date |-> st.date,
                 date_of_birth |-> db.date]]

Kinds == {"superstore", "employees"}

RowGen(kind, rng, row_id, now) ==
    IF kind = "superstore" THEN SuperstoreRowGen(rng, row_id, now)
    ELSE EmployeeRowGen(rng, row_id, now)

RECURSIVE RowLoop(_, _, _, _, _)
\* for row_id in start_idx..end_idx { ... chunk.push(row) }
RowLoop(kind, rng, start_idx, end_idx, now) ==
    IF start_idx >= end_idx THEN [rng |-> rng, chunk |-> <<>>]
    ELSE LET g == RowGen(kind, rng, start_idx, now)
             rest == RowLoop(kind, g.rng, start_idx + 1, end_idx, now)
         IN [rng |-> rest.rng, chunk |-> <<g.row>> \o rest.chunk]

\* the chain under test before any is constructed
ChainIdle ==
    /\ markov = [states |-> <<>>, transition_matrix |-> <<>>, current_state |-> 0]
    /\ label = ""
    /\ nexts = 0

\* no kernel is being exercised
KernIdle ==
    /\ garch = [phase |-> "idle"]
    /\ innov = [phase |-> "idle"]

\* no get_time_series_with_config call
SeriesIdle ==
    /\ tsconfig = [nper |-> 0]
    /\ ts = [phase |-> "idle"]

\* no superstore_with_config call
CfgdIdle ==
    /\ sscfg = [count |-> 0]
    /\ ss = [phase |-> "idle"]

\* no function is being exercised on its own
CallIdle == kcall = [phase |-> "idle"]

ExtIdle == ChainIdle /\ KernIdle /\ SeriesIdle /\ CfgdIdle /\ CallIdle

IdleSess ==
    [pc |-> "idle", steps |-> 0, pages_viewed |-> 0, bounced |-> FALSE,
     converted |-> FALSE, total_value |-> 0, state_name |-> "landing"]

SessIdle ==
    /\ config = [sessions |-> 0]
    /\ mc = [transition_matrix |-> <<>>, current_state |-> 0]
    /\ sess = IdleSess
    /\ nsessions = 0

StreamIdle ==
    /\ seed0 = U64Zero
    /\ iters = <<>>
    /\ outs = <<>>
    /\ lens = <<>>
    /\ pulls = <<>>
    /\ ended = <<>>

\* ------------------------------------------------------------- parallel

\* the global registry before anything has built it
Uninit == [built |-> FALSE, size |-> 0]

Built(n) == [built |-> TRUE, size |-> n]

\* u64::wrapping_add of a seed and a thread index below 2^16
WrappingAdd(s, i) ==
    LET d == s[4] + i
        c == s[3] + (d \div 65536)
        b == s[2] + (c \div 65536)
        a == s[1] + (b \div 65536)
    IN <<a % 65536, b % 65536, c % 65536, d % 65536>>

SaturatingAdd(s, i) ==
    LET d == s[4] + i
        c == s[3] + (d \div 65536)
        b == s[2] + (c \div 65536)
        a == s[1] + (b \div 65536)
    IN IF a >= 65536 THEN U64Max ELSE <<a, b % 65536, c % 65536, d % 65536>>

WorkerSeedSaturating(s, thread_idx) == SaturatingAdd(s, thread_idx)

\* s.wrapping_add(thread_idx as u64), the argument of seed_from_u64
WorkerSeed(s, thread_idx) == WrappingAdd(s, thread_idx)

ChunkSizeFloor(count, num_threads) == count \div num_threads

\* let chunk_size = (count + num_threads - 1) / num_threads
ChunkSize(count, num_threads) == (count + num_threads - 1) \div num_threads

EndIdxUnclamped(start_idx, chunk_size, count) == start_idx + chunk_size

\* let end_idx = (start_idx + chunk_size).min(count)
EndIdx(start_idx, chunk_size, count) == Min(start_idx + chunk_size, count)

\* rayon::current_num_threads(): the global pool, built with the default
\* size if nothing has built it yet
CurrentNumThreads(p, cpus) == IF p.built THEN p.size ELSE cpus

SetNumThreadsIgnored(p, n, cpus) ==
    IF ~p.built
    THEN [pool |-> Built(IF n = 0 THEN cpus ELSE n), ret |-> "Ok"]
    ELSE [pool |-> p, ret |-> "Ok"]

\* set_num_threads: ThreadPoolBuilder::new().num_threads(n).build_global();
\* num_threads(0) asks for the default size
SetNumThreadsResult(p, n, cpus) ==
    IF ~p.built
    THEN [pool |-> Built(IF n = 0 THEN cpus ELSE n), ret |-> "Ok"]
    ELSE [pool |-> p, ret |-> "Err"]

IdleCall ==
    [phase |-> "idle", kind |-> "superstore", count |-> 0, seed |-> NoSeed,
     num_threads |-> 0, chunk_size |-> 0]

ReadyWorker ==
    [pc |-> "ready", seed |-> NoSeed, rng |-> 0, row_id |-> 0, end_idx |-> 0,
     chunk |-> <<>>]

ParIdle ==
    /\ ncpu = 1
    /\ pool = Uninit
    /\ setCalls = 0
    /\ setRet = "none"
    /\ call = IdleCall
    /\ workers = <<>>
    /\ completion = <<>>
    /\ result = <<>>

ParInit ==
    /\ today = 200
    /\ ncpu \in 1..MaxThreads
    /\ pool = Uninit
    /\ setCalls = 0
    /\ setRet = "none"
    /\ call = IdleCall
    /\ workers = <<>>
    /\ completion = <<>>
    /\ result = <<>>
    /\ StreamIdle
    /\ SessIdle
    /\ ExtIdle

\* set_num_threads(n), from any thread at any time
SetNumThreads(n) ==
    /\ setCalls < MaxSetCalls
    /\ LET r == SetNumThreadsResult(pool, n, ncpu) IN
         /\ pool' = r.pool
         /\ setRet' = r.ret
    /\ setCalls' = setCalls + 1
    /\ UNCHANGED <<extVars, today, streamVars, sessVars, ncpu, call, workers, completion, result>>

\* superstore_parallel(count, seed) / employees_parallel(count, seed) up to
\* the dispatch of the closures: (0..num_threads).into_par_iter().map(..)
CallParallel(kind, count, seed) ==
    /\ call.phase = "idle"
    /\ LET n == CurrentNumThreads(pool, ncpu) IN
         /\ pool' = Built(n)
         /\ call' = [phase |-> "running", kind |-> kind, count |-> count,
                     seed |-> seed, num_threads |-> n,
                     chunk_size |-> ChunkSize(count, n)]
         /\ workers' = [i \in 0..(n - 1) |-> ReadyWorker]
    /\ UNCHANGED <<extVars, today, streamVars, sessVars, ncpu, setCalls, setRet, completion, result>>

\* the closure of thread_idx up to its row loop, with the random source it
\* was given (entropy: what from_entropy produced when no seed is supplied)
WorkerBegin(w, thread_idx, c, entropy) ==
    LET start_idx == thread_idx * c.chunk_size
        end_idx == EndIdx(start_idx, c.chunk_size, c.count)
    IN IF start_idx >= c.count
       THEN [w EXCEPT !.pc = "done"]
       ELSE [pc |-> "running",
             seed |-> IF c.seed = NoSeed THEN NoSeed ELSE WorkerSeed(c.seed, thread_idx),
             rng |-> IF c.seed = NoSeed THEN entropy
                     ELSE SeedFromU64(WorkerSeed(c.seed, thread_idx)),
             row_id |-> start_idx,
             end_idx |-> end_idx,
             chunk |-> <<>>]

WorkerStart(i) ==
    /\ call.phase = "running"
    /\ i \in DOMAIN workers
    /\ workers[i].pc = "ready"
    /\ \E entropy \in 0..MaxEntropy :
         /\ call.seed # NoSeed => entropy = 0
         /\ workers' = [workers EXCEPT ![i] = WorkerBegin(workers[i], i, call, entropy)]
    /\ completion' = IF workers'[i].pc = "done" THEN Append(completion, i) ELSE completion
    /\ UNCHANGED <<extVars, today, streamVars, sessVars, ncpu, pool, setCalls, setRet, call, result>>

WorkerRowStepSharedRng(ws, i, kind, now) ==
    LET w == ws[i]
        src == IF ws[0].pc = "ready" THEN w.rng ELSE ws[0].rng
        g == RowGen(kind, src, w.row_id, now)
        ws1 == [ws EXCEPT ![i] = [w EXCEPT !.rng = g.rng,
                                           !.chunk = Append(@, g.row),
                                           !.row_id = @ + 1,
                                           !.pc = IF w.row_id + 1 >= w.end_idx
                                                  THEN "done" ELSE "running"]]
    IN IF ws[0].pc = "ready" THEN ws1 ELSE [ws1 EXCEPT ![0].rng = g.rng]

\* one iteration of `for row_id in start_idx..end_idx` in the closure of
\* thread_idx i; the closure returns its chunk after the last one
WorkerRowStep(ws, i, kind, now) ==
    LET w == ws[i]
        g == RowGen(kind, w.rng, w.row_id, now)
    IN [ws EXCEPT ![i] = [w EXCEPT !.rng = g.rng,
                                   !.chunk = Append(@, g.row),
                                   !.row_id = @ + 1,
                                   !.pc = IF w.row_id + 1 >= w.end_idx
                                          THEN "done" ELSE "running"]]

WorkerRow(i) ==
    /\ call.phase = "running"
    /\ i \in DOMAIN workers
    /\ workers[i].pc = "running"
    /\ workers' = WorkerRowStep(workers, i, call.kind, today)
    /\ completion' = IF workers'[i].pc = "done" THEN Append(completion, i) ELSE completion
    /\ UNCHANGED <<extVars, today, streamVars, sessVars, ncpu, pool, setCalls, setRet, call, result>>

RECURSIVE IndexOrder(_)
\* 0, 1, ..., n - 1
IndexOrder(n) == IF n = 0 THEN <<>> ELSE Append(IndexOrder(n - 1), n - 1)

CollectOrderCompletion(n, done) == done

\* collect() of an indexed parallel iterator: the items in index order
CollectOrder(n, done) == IndexOrder(n)

RECURSIVE Flatten(_, _, _)
\* chunks.into_iter().flatten().collect(), over the first k chunks of order
Flatten(ws, order, k) ==
    IF k = 0 THEN <<>> ELSE Flatten(ws, order, k - 1) \o ws[order[k]].chunk

\* the join: every closure has returned; the chunks are collected and flattened
Collect ==
    /\ call.phase = "running"
    /\ \A i \in DOMAIN workers : workers[i].pc = "done"
    /\ result' = Flatten(workers, CollectOrder(call.num_threads, completion),
                         call.num_threads)
    /\ call' = [call EXCEPT !.phase = "returned"]
    /\ UNCHANGED <<extVars, today, streamVars, sessVars, ncpu, pool, setCalls, setRet, workers, completion>>

\* num_threads(): rayon::current_num_threads() builds the default pool when
\* nothing has built one yet
NumThreads ==
    /\ ~pool.built
    /\ pool' = Built(CurrentNumThreads(pool, ncpu))
    /\ UNCHANGED <<extVars, today, streamVars, sessVars, ncpu, setCalls, setRet, call, workers,
                   completion, result>>

ParNext ==
    \/ \E n \in 0..MaxThreads : SetNumThreads(n)
    \/ NumThreads
    \/ \E kind \in Kinds, count \in 0..MaxCount, seed \in Seeds \cup {NoSeed} :
         CallParallel(kind, count, seed)
    \/ \E i \in 0..(MaxThreads - 1) : WorkerStart(i)
    \/ \E i \in 0..(MaxThreads - 1) : WorkerRow(i)
    \/ Collect

SpecParallel == ParInit /\ [][ParNext]_vars

\* ------------------------------------------------------------ streaming

\* SuperstoreIterator::new / EmployeeIterator::new with Some(seed)
IteratorNew(kind, total_count, chunk_size, seed) ==
    [kind |-> kind,
     rng |-> SeedFromU64(seed),
     total_count |-> total_count,
     generated |-> 0,
     chunk_size |-> chunk_size]

ChunkLenUnclamped(it) == it.chunk_size

\* let remaining = total_count - generated; let chunk_len = remaining.min(chunk_size)
ChunkLen(it) == Min(it.total_count - it.generated, it.chunk_size)

\* the chunk loop of next(): rows generated .. generated + chunk_len
ChunkRows(it, now) ==
    RowLoop(it.kind, it.rng, it.generated, it.generated + ChunkLen(it), now)

IteratorNextClonedRng(it, now) ==
    IF it.generated >= it.total_count
    THEN [some |-> FALSE, chunk |-> <<>>, it |-> it]
    ELSE LET c == ChunkRows(it, now) IN
         [some |-> TRUE,
          chunk |-> c.chunk,
          it |-> [it EXCEPT !.generated = it.generated + ChunkLen(it)]]

\* Iterator::next: None once generated >= total_count, else the next chunk
IteratorNext(it, now) ==
    IF it.generated >= it.total_count
    THEN [some |-> FALSE, chunk |-> <<>>, it |-> it]
    ELSE LET c == ChunkRows(it, now) IN
         [some |-> TRUE,
          chunk |-> c.chunk,
          it |-> [it EXCEPT !.rng = c.rng, !.generated = it.generated + ChunkLen(it)]]

StreamInit ==
    /\ today \in {60, 300}
    /\ seed0 \in Seeds
    /\ \E kind \in Kinds, total \in 0..MaxTotal :
         \E c1 \in 0..MaxChunk, c2 \in 0..MaxChunk :
            iters = <<IteratorNew(kind, total, c1, seed0),
                      IteratorNew(kind, total, c2, seed0)>>
    /\ outs = <<(<<>>), (<<>>)>>
    /\ lens = <<(<<>>), (<<>>)>>
    /\ pulls = <<0, 0>>
    /\ ended = <<FALSE, FALSE>>
    /\ ParIdle
    /\ SessIdle
    /\ ExtIdle

\* one call of next() on iterator i by its consumer
Pull(i) ==
    /\ pulls[i] < MaxPulls
    /\ LET r == IteratorNext(iters[i], today) IN
         /\ iters' = [iters EXCEPT ![i] = r.it]
         /\ outs' = [outs EXCEPT ![i] = @ \o r.chunk]
         /\ lens' = [lens EXCEPT ![i] = IF r.some THEN Append(@, Len(r.chunk)) ELSE @]
         /\ ended' = [ended EXCEPT ![i] = ~r.some]
    /\ pulls' = [pulls EXCEPT ![i] = @ + 1]
    /\ UNCHANGED <<extVars, today, seed0, parVars, sessVars>>

StreamNext == \E i \in 1..2 : Pull(i)

SpecStream == StreamInit /\ [][StreamNext]_vars

\* ------------------------------------------------------------- sessions
\* Probabilities are exact fractions: a SessionConfig probability is a number
\* of thousandths, a matrix entry a weight over the row's denominator, and a
\* value of rng.gen::<f64>() a number of ten-thousandths below 1.  The random
\* source of generate_sessions is not followed draw by draw: every draw may
\* produce any value of UValues.

Scale == 10 * 1000

UValues == {k * 500 : k \in 0..19} \cup {9999}

SESSION_STATES ==
    <<"landing", "browse", "view_product", "add_to_cart", "view_cart",
      "checkout_start", "checkout_payment", "purchase", "exit">>

RECURSIVE RowSum(_, _)
\* row.iter().sum() over the first k entries
RowSum(row, k) == IF k = 0 THEN 0 ELSE RowSum(row, k - 1) + row[k]

\* normalize: all probability on the last state when the row sums to 0,
\* else every entry divided by the sum
normalize(row) ==
    IF RowSum(row, Len(row)) = 0
    THEN [w |-> [k \in 1..Len(row) |-> IF k = Len(row) THEN 1 ELSE 0], den |-> 1]
    ELSE [w |-> row, den |-> RowSum(row, Len(row))]

build_session_transition_matrix(c) ==
    LET bounce == IF c.enable_bounces THEN c.bounce_rate ELSE 0
        cart_prob == c.cart_add_probability
        checkout_prob == c.checkout_start_probability
        purchase_prob == c.purchase_completion_probability
    IN << normalize(<<0, 5 * (1000 - bounce), 3 * (1000 - bounce), 0, 0, 0, 0, 0,
                      10 * bounce + 2 * (1000 - bounce)>>),
          normalize(<<0, 3000, 4000, 0, 0, 0, 0, 0, 3000>>),
          normalize(<<0, 2500, 2000, 10 * cart_prob, 0, 0, 0, 0,
                      5500 - 10 * cart_prob>>),
          normalize(<<0, 1000, 2000, 1000, 4000, 0, 0, 0, 2000>>),
          normalize(<<0, 1000, 1500, 500, 1000, 10 * checkout_prob, 0, 0,
                      6000 - 10 * checkout_prob>>),
          normalize(<<0, 0, 0, 0, 1500, 0, 9 * purchase_prob, 0,
                      8500 - 9 * purchase_prob>>),
          normalize(<<0, 0, 0, 0, 500, 0, 0, 10 * purchase_prob,
                      9500 - 10 * purchase_prob>>),
          [w |-> <<0, 0, 0, 0, 0, 0, 0, 0, 1>>, den |-> 1],
          [w |-> <<0, 0, 0, 0, 0, 0, 0, 0, 1>>, den |-> 1] >>

\* MarkovChain::new(matrix, states) for a matrix that passes its checks:
\* the cursor starts on state 0
MarkovNew(matrix) == [transition_matrix |-> matrix, current_state |-> 0]

MarkovNextInclusive(chain, u) ==
    LET row == chain.transition_matrix[chain.current_state + 1]
        n == Len(row.w)
        hit == {j \in 1..n : RowSum(row.w, j) * Scale >= u * row.den}
    IN [chain EXCEPT !.current_state =
           IF hit = {} THEN n - 1
           ELSE (CHOOSE j \in hit : \A k \in hit : j <= k) - 1]

\* MarkovChain::next: the cursor moves to the first state of the current row
\* whose cumulative probability exceeds u, else to the last state of the row
MarkovNext(chain, u) ==
    LET row == chain.transition_matrix[chain.current_state + 1]
        n == Len(row.w)
        hit == {j \in 1..n : RowSum(row.w, j) * Scale > u * row.den}
    IN [chain EXCEPT !.current_state =
           IF hit = {} THEN n - 1
           ELSE (CHOOSE j \in hit : \A k \in hit : j <= k) - 1]

\* MarkovChain::set_state(index), for an index in range
MarkovSetState(chain, index) == [chain EXCEPT !.current_state = index]

DefaultSession ==
    [enable_bounces |-> TRUE, bounce_rate |-> 350, cart_add_probability |-> 150,
     checkout_start_probability |-> 400, purchase_completion_probability |-> 650]

SessionConfigs ==
    { DefaultSession,
      [DefaultSession EXCEPT !.enable_bounces = FALSE],
      [DefaultSession EXCEPT !.bounce_rate = 1000],
      [enable_bounces |-> TRUE, bounce_rate |-> 0, cart_add_probability |-> 0,
       checkout_start_probability |-> 0, purchase_completion_probability |-> 0] }

max_steps == 50

LoopContinuesInclusive(steps) == steps <= max_steps

\* for _ in 0..max_steps: whether another iteration starts
LoopContinues(steps) == steps < max_steps

SessInit ==
    /\ today = 200
    /\ \E sc \in SessionConfigs, n \in 1..MaxSessions :
          config = [session |-> sc, sessions |-> n]
    /\ mc = MarkovNew(build_session_transition_matrix(config.session))
    /\ sess = IdleSess
    /\ nsessions = 0
    /\ StreamIdle
    /\ ParIdle
    /\ ExtIdle

ResetChainSkipped(c) == c

\* mc.set_state(0).unwrap(): the chain is put back on 'landing'
ResetChain(c) == MarkovSetState(c, 0)

\* one iteration of `for _i in 0..config.sessions` up to the navigation loop:
\* the counters are initialised, the chain is reset and the bounce is drawn
SessionBegin ==
    /\ sess.pc = "idle"
    /\ nsessions < config.sessions
    /\ mc' = ResetChain(mc)
    /\ \E u \in UValues :
         LET bounced == config.session.enable_bounces /\ u < 10 * config.session.bounce_rate
         IN sess' = [pc |-> IF bounced THEN "finish" ELSE "nav",
                     steps |-> 0, pages_viewed |-> 1, bounced |-> bounced,
                     converted |-> FALSE, total_value |-> 0,
                     state_name |-> "landing"]
    /\ UNCHANGED <<extVars, today, streamVars, parVars, config, nsessions>>

OrderValueWide(v) == 20 * Scale + v * 220

\* 20.0 + rng.gen::<f64>() * 200.0, in ten-thousandths
OrderValue(v) == 20 * Scale + v * 200

\* one iteration of the navigation loop: a chain step, then the two breaks
NavStep ==
    /\ sess.pc = "nav"
    /\ LoopContinues(sess.steps)
    /\ \E u \in UValues :
         LET next == MarkovNext(mc, u)
             state_name == SESSION_STATES[next.current_state + 1]
         IN /\ mc' = next
            /\ \E v \in IF state_name = "purchase" THEN UValues ELSE {0} :
                 sess' = [sess EXCEPT
                    !.steps = @ + 1,
                    !.pages_viewed = @ + 1,
                    !.state_name = state_name,
                    !.converted = (state_name = "purchase"),
                    !.total_value = IF state_name = "purchase"
                                    THEN OrderValue(v) ELSE 0,
                    !.pc = IF state_name \in {"purchase", "exit"}
                           THEN "finish" ELSE "nav"]
    /\ UNCHANGED <<extVars, today, streamVars, parVars, config, nsessions>>

\* the navigation loop runs out of iterations
NavEnd ==
    /\ sess.pc = "nav"
    /\ ~LoopContinues(sess.steps)
    /\ sess' = [sess EXCEPT !.pc = "finish"]
    /\ UNCHANGED <<extVars, today, streamVars, parVars, config, mc, nsessions>>

\* the rest of the iteration: sessions.push(Session { .. }) with the
\* pages_viewed, bounced, converted and total_value of the iteration
SessionPush ==
    /\ sess.pc = "finish"
    /\ nsessions' = nsessions + 1
    /\ sess' = [sess EXCEPT !.pc = "idle"]
    /\ UNCHANGED <<extVars, today, streamVars, parVars, config, mc>>

SessNext ==
    \/ SessionBegin
    \/ NavStep
    \/ NavEnd
    \/ SessionPush

SpecSessions == SessInit /\ [][SessNext]_vars

\* ---------------------------------------------------------------- chain
\* A MarkovChain on its own: constructed from a matrix the crate derives (the
\* session matrix of a SessionConfig, the regime matrix of a RegimeConfig),
\* then moved by set_state and next in any order.

\* the SessionConfig probabilities tried, in thousandths, all within [0, 1]
ProbGrid == {0, 400, 600, 1000}

GridSessionConfigs ==
    [enable_bounces : BOOLEAN, bounce_rate : ProbGrid,
     cart_add_probability : ProbGrid, checkout_start_probability : ProbGrid,
     purchase_completion_probability : ProbGrid]

\* (n - 1).max(1) of create_regime_chain
SwitchTargets(n) == IF n - 1 >= 1 THEN n - 1 ELSE 1

\* the matrix of create_regime_chain: p_stay on the diagonal and
\* p_switch = (1 - p_stay) / (n - 1).max(1) everywhere else
RegimeMatrix(c) ==
    LET n == c.n_regimes
        m == SwitchTargets(n)
    IN [i \in 1..n |->
          [w |-> [j \in 1..n |-> IF j = i THEN c.regime_persistence * m
                                 ELSE 1000 - c.regime_persistence],
           den |-> 1000 * m]]

RegimeStates(n) ==
    [i \in 1..n |-> <<"regime_0", "regime_1", "regime_2", "regime_3">>[i]]

\* MarkovChain::new(matrix, states): an error unless the matrix is square,
\* has one row per label and every row sums to 1
MarkovConstruct(matrix, states) ==
    IF /\ Len(matrix) = Len(states)
       /\ \A i \in 1..Len(matrix) :
             /\ Len(matrix[i].w) = Len(matrix)
             /\ RowSum(matrix[i].w, Len(matrix[i].w)) = matrix[i].den
    THEN [ok |-> TRUE,
          chain |-> [states |-> states, transition_matrix |-> matrix,
                     current_state |-> 0]]
    ELSE [ok |-> FALSE,
          chain |-> [states |-> <<>>, transition_matrix |-> <<>>,
                     current_state |-> 0]]

DefaultRegimes ==
    [enable |-> FALSE, n_regimes |-> 2, regime_persistence |-> 950,
     volatility_multipliers |-> <<1000, 2500>>]

\* create_regime_chain: None when disabled or when construction fails
create_regime_chain(c) ==
    IF ~c.enable THEN MarkovConstruct(<<>>, <<"none">>)
    ELSE MarkovConstruct(RegimeMatrix(c), RegimeStates(c.n_regimes))

RegimeConfigs ==
    { [DefaultRegimes EXCEPT !.enable = TRUE, !.n_regimes = n,
                             !.regime_persistence = p] :
        n \in 1..3, p \in {0, 500, 950, 1000} }

\* the chains the crate constructs
CrateChains ==
    { MarkovConstruct(build_session_transition_matrix(sc), SESSION_STATES) :
        sc \in GridSessionConfigs }
    \cup { create_regime_chain(rc) : rc \in RegimeConfigs }

ChainInit ==
    /\ today = 200
    /\ \E c \in CrateChains : c.ok /\ markov = c.chain
    /\ label = ""
    /\ nexts = 0
    /\ StreamIdle /\ ParIdle /\ SessIdle
    /\ KernIdle /\ SeriesIdle /\ CfgdIdle /\ CallIdle

\* chain.set_state(index) with an index in range
ChainSetState(index) ==
    /\ index < Len(markov.states)
    /\ markov.current_state # index
    /\ markov' = MarkovSetState(markov, index)
    /\ label' = ""
    /\ nexts' = 0
    /\ UNCHANGED <<today, streamVars, parVars, sessVars, kernVars, seriesVars, cfgdVars, callVars>>

\* chain.next(rng): one uniform draw, the cursor moves, the label is returned
ChainNext ==
    /\ nexts < MaxNexts
    /\ \E u \in UValues :
         /\ markov' = MarkovNext(markov, u)
         /\ label' = markov'.states[markov'.current_state + 1]
    /\ nexts' = nexts + 1
    /\ UNCHANGED <<today, streamVars, parVars, sessVars, kernVars, seriesVars, cfgdVars, callVars>>

ChainNextStep ==
    \/ \E index \in 0..8 : ChainSetState(index)
    \/ ChainNext

SpecChain == ChainInit /\ [][ChainNextStep]_vars

\* -------------------------------------------------------- f64 arithmetic
\* An f64 is a fixed-point number of thousandths (Unit is 1.0); a variance
\* is kept in millionths, the unit of a squared f64.  Every non-finite f64
\* (an infinity or a NaN) is the one value NonFinite, and arithmetic on
\* NonFinite is NonFinite.

Unit == 10 * 100

NonFinite == 0 - (Unit * Unit * Unit)

RECURSIVE ISqrtBetween(_, _, _)
\* the largest r in lo..hi with r * r <= n
ISqrtBetween(n, lo, hi) ==
    IF lo >= hi THEN lo
    ELSE LET mid == (lo + hi + 1) \div 2 IN
         IF mid * mid <= n THEN ISqrtBetween(n, mid, hi)
         ELSE ISqrtBetween(n, lo, mid - 1)

ISqrt(n) == ISqrtBetween(n, 0, 46340)

FAdd(a, b) == IF a = NonFinite \/ b = NonFinite THEN NonFinite ELSE a + b

FSub(a, b) == IF a = NonFinite \/ b = NonFinite THEN NonFinite ELSE a - b

\* a * b / Unit, rounded down, without forming a * b
MulDown(a, b) == a * (b \div Unit) + (a * (b % Unit)) \div Unit

FMul(a, b) == IF a = NonFinite \/ b = NonFinite THEN NonFinite ELSE MulDown(a, b)

FDiv(a, b) ==
    IF a = NonFinite \/ b = NonFinite \/ b = 0 THEN NonFinite
    ELSE (a * Unit) \div b

FSqrt(a) == IF a = NonFinite \/ a < 0 THEN NonFinite ELSE ISqrt(a * Unit)

FAbs(a) == IF a = NonFinite THEN NonFinite ELSE IF a < 0 THEN 0 - a ELSE a

\* x.powi(2) of an f64, as a variance (millionths)
Squared(a) == IF a = NonFinite THEN NonFinite ELSE a * a

\* variance.sqrt(), back in thousandths
SqrtOfVariance(v) == IF v = NonFinite \/ v < 0 THEN NonFinite ELSE ISqrt(v)

\* ------------------------------------------------------- random source
\* The StdRng of the series generator with the number of values drawn from
\* it.  A standard normal variate is one draw, mapped to one of four values.

SeriesRng(x) == [x |-> x, n |-> 0]

\* F applied to the value of v, which is computed once
Eval(v, F(_)) == CHOOSE y \in {F(x) : x \in {v}} : TRUE

Advance(rng) == [x |-> RngStep(rng.x), n |-> rng.n + 1]

StdNormal(x) == <<0 - 1500, 0 - 500, 500, 1500>>[(x % 4) + 1]

\* rng.gen::<f64>() in ten-thousandths
Uniform(x) == (x * 397) % Scale

\* Normal::new(mean, std_dev).sample(rng)
NormalSample(rng, mean, std_dev) ==
    LET r == Advance(rng) IN
    [rng |-> r, value |-> FAdd(mean, FMul(std_dev, StdNormal(r.x)))]

\* ------------------------------------------------------------ innovation

RECURSIVE ChiSquareLoop(_, _)
\* for _ in 0..n_samples { chi_sq += x * x + y * y }; st.k counts the
\* iterations made
ChiSquareLoop(st, n_samples) ==
    IF st.k >= n_samples THEN st
    ELSE Eval(NormalSample(st.rng, 0, Unit), LAMBDA x :
         Eval(NormalSample(x.rng, 0, Unit), LAMBDA y :
         Eval([rng |-> y.rng, k |-> st.k + 1,
               value |-> FAdd(st.value, FAdd(FMul(x.value, x.value),
                                             FMul(y.value, y.value)))],
              LAMBDA next : ChiSquareLoop(next, n_samples))))

\* sample_student_t: z / sqrt(chi_sq / df) with chi_sq from ceil(df / 2)
\* pairs of normals
sample_student_t(rng, df) ==
    LET n_samples == (df + 2 * Unit - 1) \div (2 * Unit) IN
    Eval(NormalSample(rng, 0, Unit), LAMBDA z :
    Eval(ChiSquareLoop([rng |-> z.rng, k |-> 0, value |-> 0], n_samples),
         LAMBDA sum :
           LET chi_sq == FMul(sum.value, FDiv(df, 2 * n_samples * Unit))
           IN [rng |-> sum.rng,
               value |-> FDiv(z.value, FSqrt(FDiv(chi_sq, df)))]))

FatTailsInclusive(use_fat_tails, df) == use_fat_tails /\ df >= 2 * Unit

\* use_fat_tails && df > 2.0
FatTails(use_fat_tails, df) == use_fat_tails /\ df > 2 * Unit

sample_innovation(rng, sigma, use_fat_tails, df) ==
    IF FatTails(use_fat_tails, df)
    THEN LET scale == FMul(sigma, FSqrt(FDiv(df - 2 * Unit, df)))
         IN Eval(sample_student_t(rng, df),
                 LAMBDA t : [rng |-> t.rng, value |-> FMul(t.value, scale)])
    ELSE NormalSample(rng, 0, sigma)

\* ----------------------------------------------------------------- GARCH

DefaultGarch == [enable |-> FALSE, alpha |-> 100, beta |-> 850, omega |-> 50]

\* config.omega / (1.0 - config.alpha - config.beta), a variance
LongRunVariance(c) ==
    IF Unit - c.alpha - c.beta = 0 THEN NonFinite
    ELSE (c.omega * Unit * Unit) \div (Unit - c.alpha - c.beta)

PrevReturnSqVariance(g) == g.variance

\* if i > 0 { innovations[i - 1].powi(2) } else { variance }
PrevReturnSq(g) ==
    IF g.i > 0 THEN Squared(g.innovations[g.i]) ELSE g.variance

\* config.omega + config.alpha * prev_return_sq + config.beta * variance
GarchUpdate(c, prev_return_sq, variance) ==
    IF prev_return_sq = NonFinite \/ variance = NonFinite THEN NonFinite
    ELSE c.omega * Unit + MulDown(c.alpha, prev_return_sq) + MulDown(c.beta, variance)

\* the body of `for i in 0..innovations.len()`; g.i is the loop index
GarchBody(c, g) ==
    LET variance == GarchUpdate(c, PrevReturnSq(g), g.variance) IN
    [innovations |-> [g.innovations EXCEPT
                        ![g.i + 1] = FMul(@, SqrtOfVariance(variance))],
     i |-> g.i + 1,
     variance |-> variance]

RECURSIVE GarchLoop(_, _)
GarchLoop(c, g) ==
    IF g.i >= Len(g.innovations) THEN g
    ELSE Eval(GarchBody(c, g), LAMBDA next : GarchLoop(c, next))

apply_garch_volatility(innovations, c) ==
    IF ~c.enable \/ innovations = <<>> THEN innovations
    ELSE GarchLoop(c, [innovations |-> innovations, i |-> 0,
                       variance |-> LongRunVariance(c)]).innovations

\* -------------------------------------------------------------- kernels
\* sample_innovation and apply_garch_volatility exercised on their own:
\* one call of sample_innovation, or the loop of apply_garch_volatility
\* taken one iteration at a time.

BufLen == 100

Zeros(n) == [k \in 1..n |-> 0]

GarchBuffers == {<<>>, <<1000, 0 - 500, 2000>>, Zeros(BufLen)}

GarchConfigs ==
    { DefaultGarch,
      [DefaultGarch EXCEPT !.enable = TRUE],
      [DefaultGarch EXCEPT !.enable = TRUE, !.beta = 900],
      [DefaultGarch EXCEPT !.enable = TRUE, !.alpha = 200, !.beta = 900] }

InnovationInputs ==
    [x : 0..(RngMod - 1), sigma : {0, 500, 1000, 2500},
     use_fat_tails : BOOLEAN, df : {1000, 2000, 2500, 5000}]

KernInit ==
    /\ today = 200
    /\ \/ /\ \E c \in GarchConfigs, b \in GarchBuffers :
               garch = [phase |-> "called", config |-> c, innovations |-> b,
                        i |-> 0, variance |-> 0]
          /\ innov = [phase |-> "idle"]
       \/ /\ \E a \in InnovationInputs : innov = [phase |-> "called", args |-> a]
          /\ garch = [phase |-> "idle"]
    /\ StreamIdle /\ ParIdle /\ SessIdle
    /\ ChainIdle /\ SeriesIdle /\ CfgdIdle /\ CallIdle

\* sample_innovation(rng, sigma, use_fat_tails, df)
SampleInnovation ==
    /\ innov.phase = "called"
    /\ LET a == innov.args
           r == sample_innovation(SeriesRng(a.x), a.sigma, a.use_fat_tails, a.df)
       IN innov' = [phase |-> "returned", args |-> a, value |-> r.value,
                    draws |-> r.rng.n, rng |-> r.rng.x]
    /\ UNCHANGED <<today, streamVars, parVars, sessVars, chainVars, garch,
                   seriesVars, cfgdVars, callVars>>

\* apply_garch_volatility up to its loop: the early return, else the
\* long-run variance
GarchEnter ==
    /\ garch.phase = "called"
    /\ garch' = IF ~garch.config.enable \/ garch.innovations = <<>>
                THEN [garch EXCEPT !.phase = "returned"]
                ELSE [garch EXCEPT !.phase = "loop",
                                   !.variance = LongRunVariance(garch.config)]
    /\ UNCHANGED <<today, streamVars, parVars, sessVars, chainVars, innov,
                   seriesVars, cfgdVars, callVars>>

\* one iteration of the loop of apply_garch_volatility
GarchIterate ==
    /\ garch.phase = "loop"
    /\ garch.i < Len(garch.innovations)
    /\ LET g == GarchBody(garch.config, garch) IN
       garch' = [garch EXCEPT !.innovations = g.innovations, !.i = g.i,
                              !.variance = g.variance]
    /\ UNCHANGED <<today, streamVars, parVars, sessVars, chainVars, innov,
                   seriesVars, cfgdVars, callVars>>

\* the loop of apply_garch_volatility is over
GarchExit ==
    /\ garch.phase = "loop"
    /\ garch.i >= Len(garch.innovations)
    /\ garch' = [garch EXCEPT !.phase = "returned"]
    /\ UNCHANGED <<today, streamVars, parVars, sessVars, chainVars, innov,
                   seriesVars, cfgdVars, callVars>>

KernNext ==
    \/ SampleInnovation
    \/ GarchEnter
    \/ GarchIterate
    \/ GarchExit

SpecKernels == KernInit /\ [][KernNext]_vars

\* --------------------------------------------------------------- series
\* get_time_series_with_config.  A column is generated by one evaluation of
\* make_time_series_with_config_inner, which also reports the series before
\* the cumulative sum (returns) and the stages it went through.

DefaultJumps ==
    [enable |-> FALSE, jump_probability |-> 10, jump_mean |-> 0, jump_stddev |-> 50]

DefaultMeanReversion == [enable |-> FALSE, theta |-> 150, mu |-> 0, sigma |-> 200]

DefaultIntraday ==
    [enable |-> FALSE, opening_volatility_mult |-> 1500,
     midday_volatility_mult |-> 700, closing_volatility_mult |-> 1300]

DefaultEventWindows ==
    [enable |-> FALSE, event_indices |-> <<>>, pre_event_window |-> 5,
     post_event_window |-> 5, abnormal_return_mean |-> 20,
     abnormal_return_stddev |-> 30]

DefaultTimeseries ==
    [nper |-> 30, ncol |-> 4, freq |-> "B", seed |-> NoSeed, ar_phi |-> 950,
     sigma |-> 1000,
     drift |-> 0, cumulative |-> TRUE, use_fat_tails |-> FALSE,
     degrees_freedom |-> 5000, cross_correlation |-> 0,
     regimes |-> DefaultRegimes, jumps |-> DefaultJumps, garch |-> DefaultGarch,
     mean_reversion |-> DefaultMeanReversion, intraday |-> DefaultIntraday,
     event_windows |-> DefaultEventWindows]

RECURSIVE OuLoop(_, _, _)
\* for _ in 0..n { dw; x += theta * (mu - x) * dt + sigma * dt.sqrt() * dw;
\* values.push(x) }
OuLoop(st, n, c) ==
    IF Len(st.values) >= n THEN st
    ELSE Eval(NormalSample(st.rng, 0, Unit), LAMBDA dw :
         Eval(FAdd(st.x, FAdd(FMul(FMul(c.theta, FSub(c.mu, st.x)), Unit),
                              FMul(FMul(c.sigma, FSqrt(Unit)), dw.value))),
              LAMBDA x :
         Eval([rng |-> dw.rng, x |-> x, values |-> Append(st.values, x)],
              LAMBDA next : OuLoop(next, n, c))))

generate_ornstein_uhlenbeck(rng, n, c) ==
    OuLoop([rng |-> rng, x |-> c.mu, values |-> <<>>], n, c)

get_intraday_volatility_mult(index, total, c) ==
    IF ~c.enable \/ total = 0 THEN Unit
    ELSE LET t == (index * Unit) \div total
             deviation == FAbs(t - 500) * 2
             opening_blend == IF t < 500 THEN Unit - t * 2 ELSE 0
             closing_blend == IF t >= 500 THEN (t - 500) * 2 ELSE 0
             base == c.midday_volatility_mult
             opening_contrib == FMul(opening_blend, c.opening_volatility_mult - base)
             closing_contrib == FMul(closing_blend, c.closing_volatility_mult - base)
         IN base + opening_contrib + closing_contrib + FMul(deviation, 100)

\* A usize near either end of its range: a value v >= 0 is v, a value
\* v < 0 is 2^64 + v, so that UsizeMax is 2^64 - 1
UsizeMax == 0 - 1

\* a < b of two usize values
ULess(a, b) == IF (a < 0) = (b < 0) THEN a < b ELSE b < 0

\* a.saturating_sub(b)
SaturatingSub(a, b) == IF ULess(a, b) THEN 0 ELSE a - b

\* a + b of two usize values leaves the range of usize; b is a small value
AddOverflows(a, b) == a < 0 /\ a + b >= 0

RECURSIVE EventWindow(_, _, _, _)
\* the window of one event: values[i] += abnormal_return * decay for
\* i = st.i, .., end_idx - 1 (0-based); an index inside a window is far
\* below 2^31, and so is the event index of a window that is not empty
EventWindow(st, c, event_idx, end_idx) ==
    IF ~ULess(st.i, end_idx) THEN st
    ELSE LET distance == FAbs(st.i - event_idx) * Unit
             decay == FDiv(Unit, Unit + FMul(distance, 300))
         IN Eval(NormalSample(st.rng, c.abnormal_return_mean,
                              c.abnormal_return_stddev),
                 LAMBDA abnormal_return :
            Eval([rng |-> abnormal_return.rng,
                  values |-> [st.values EXCEPT
                                ![st.i + 1] =
                                    FAdd(@, FMul(abnormal_return.value, decay))],
                  i |-> st.i + 1],
                 LAMBDA next : EventWindow(next, c, event_idx, end_idx)))

\* (event_idx + post_event_window + 1).min(values.len())
EventEnd(sum, len) == IF ULess(sum, len) THEN sum ELSE len

RECURSIVE EventLoop(_, _, _)
\* for &event_idx in &config.event_indices; st.k is the next event.  The
\* sum event_idx + post_event_window + 1 is a plain usize addition: past
\* 2^64 - 1 it panics in a build with overflow checks and wraps in one
\* without
EventLoop(st, c, overflow_checks) ==
    IF st.k > Len(c.event_indices) THEN st
    ELSE LET event_idx == c.event_indices[st.k]
             start_idx == SaturatingSub(event_idx, c.pre_event_window)
             sum == event_idx + c.post_event_window + 1
             end_idx == EventEnd(sum, Len(st.values))
         IN IF overflow_checks /\ AddOverflows(event_idx, c.post_event_window + 1)
            THEN [st EXCEPT !.failed = TRUE]
            ELSE Eval(EventWindow([rng |-> st.rng, values |-> st.values,
                                   i |-> start_idx], c, event_idx, end_idx),
                      LAMBDA w :
                 Eval([rng |-> w.rng, values |-> w.values, k |-> st.k + 1,
                       failed |-> FALSE],
                      LAMBDA next : EventLoop(next, c, overflow_checks)))

\* apply_event_windows in a build with or without overflow checks
EventWindows(rng, values, c, overflow_checks) ==
    IF ~c.enable \/ c.event_indices = <<>>
    THEN [rng |-> rng, values |-> values, failed |-> FALSE]
    ELSE Eval(EventLoop([rng |-> rng, values |-> values, k |-> 1,
                         failed |-> FALSE], c, overflow_checks),
              LAMBDA done : [rng |-> done.rng, values |-> done.values,
                             failed |-> done.failed])

\* apply_event_windows on event indices far from 2^64, where the two builds
\* agree
apply_event_windows(rng, values, c) ==
    Eval(EventWindows(rng, values, c, FALSE),
         LAMBDA done : [rng |-> done.rng, values |-> done.values])

RECURSIVE AR1Loop(_, _, _)
\* AR1::sample_n: from mu, each value is mu + phi * (previous - mu) + eps
\* with eps one Normal(0, sigma) draw
AR1Loop(st, n, a) ==
    IF Len(st.values) >= n THEN st
    ELSE Eval(NormalSample(st.rng, 0, a.sigma), LAMBDA eps :
         Eval(FAdd(FAdd(a.mu, FMul(a.phi, FSub(st.x, a.mu))), eps.value),
              LAMBDA x :
         Eval([rng |-> eps.rng, x |-> x, values |-> Append(st.values, x)],
              LAMBDA next : AR1Loop(next, n, a))))

\* AR1::new(phi, sigma, mu) with sigma >= 0, then sample_n(rng, n)
AR1SampleN(rng, n, phi, sigma, mu) ==
    AR1Loop([rng |-> rng, x |-> mu, values |-> <<>>], n,
            [phi |-> phi, sigma |-> sigma, mu |-> mu])

RECURSIVE CumSum(_, _)
\* values.iter().scan(0.0, |acc, &x| { *acc += x; Some(*acc) })
CumSum(values, acc) ==
    IF values = <<>> THEN <<>>
    ELSE Eval(FAdd(acc, Head(values)), LAMBDA sum :
         Eval(Tail(values), LAMBDA rest : <<sum>> \o CumSum(rest, sum)))

\* chain.next(rng) of the regime chain and the parse of "regime_<k>"
RegimeStep(rng, chain, current_regime) ==
    IF ~chain.ok THEN [rng |-> rng, chain |-> chain, current_regime |-> current_regime]
    ELSE Eval(Advance(rng), LAMBDA r :
         Eval(MarkovNext(chain.chain, Uniform(r.x)), LAMBDA moved :
              [rng |-> r, chain |-> [chain EXCEPT !.chain = moved],
               current_regime |-> moved.current_state]))

\* regimes.volatility_multipliers.get(current_regime).unwrap_or(&1.0)
VolMult(c, current_regime) ==
    IF c.regimes.enable
    THEN IF current_regime + 1 <= Len(c.regimes.volatility_multipliers)
         THEN c.regimes.volatility_multipliers[current_regime + 1]
         ELSE Unit
    ELSE Unit

\* the draw and the jump made whatever jumps.enable is
JumpStepAlways(rng, c, innovation) ==
    Eval(Advance(rng), LAMBDA r :
         IF Uniform(r.x) < 10 * c.jumps.jump_probability
         THEN Eval(NormalSample(r, c.jumps.jump_mean, c.jumps.jump_stddev),
                   LAMBDA j : [rng |-> j.rng, value |-> FAdd(innovation, j.value)])
         ELSE [rng |-> r, value |-> innovation])

\* if jumps.enable && rng.gen::<f64>() < jump_probability { += jump }
JumpStep(rng, c, innovation) ==
    IF ~c.jumps.enable THEN [rng |-> rng, value |-> innovation]
    ELSE Eval(Advance(rng), LAMBDA r :
         IF Uniform(r.x) < 10 * c.jumps.jump_probability
         THEN Eval(NormalSample(r, c.jumps.jump_mean, c.jumps.jump_stddev),
                   LAMBDA j : [rng |-> j.rng, value |-> FAdd(innovation, j.value)])
         ELSE [rng |-> r, value |-> innovation])

RECURSIVE InnovationLoop(_, _)
\* for i in 0..config.nper { regime; multipliers; innovation; jump; drift;
\* innovations.push }; the loop index is the length of st.innovations
InnovationLoop(st, c) ==
    IF Len(st.innovations) >= c.nper THEN st
    ELSE Eval(RegimeStep(st.rng, st.chain, st.current_regime), LAMBDA reg :
         Eval(FMul(FMul(c.sigma, VolMult(c, reg.current_regime)),
                   get_intraday_volatility_mult(Len(st.innovations), c.nper,
                                                c.intraday)),
              LAMBDA effective_sigma :
         Eval(sample_innovation(reg.rng, effective_sigma, c.use_fat_tails,
                                c.degrees_freedom),
              LAMBDA drawn :
         Eval(JumpStep(drawn.rng, c, drawn.value), LAMBDA jumped :
         Eval([rng |-> jumped.rng, chain |-> reg.chain,
               current_regime |-> reg.current_regime,
               innovations |-> Append(st.innovations,
                                      FAdd(jumped.value, c.drift))],
              LAMBDA next : InnovationLoop(next, c))))))

\* the stages of the innovation pipeline a configuration goes through
PipelineStages(c) ==
    {"innovation", "drift", "ar1"}
    \cup (IF create_regime_chain(c.regimes).ok THEN {"regime"} ELSE {})
    \cup (IF c.intraday.enable /\ c.nper > 0 THEN {"intraday"} ELSE {})
    \cup (IF c.jumps.enable THEN {"jump"} ELSE {})
    \cup (IF c.garch.enable /\ c.nper > 0 THEN {"garch"} ELSE {})
    \cup (IF c.event_windows.enable /\ c.event_windows.event_indices # <<>>
          THEN {"events"} ELSE {})
    \cup (IF c.cumulative THEN {"cumulative"} ELSE {})

RECURSIVE BlendAr(_, _, _)
\* inn * (1.0 - ar_phi.abs()) + ar * ar_phi.abs() over the zip of the two
BlendAr(innovations, ar_weights, ar_phi) ==
    IF innovations = <<>> \/ ar_weights = <<>> THEN <<>>
    ELSE Eval(Tail(innovations), LAMBDA inn :
         Eval(Tail(ar_weights), LAMBDA ar :
              <<FAdd(FMul(Head(innovations), Unit - FAbs(ar_phi)),
                     FMul(Head(ar_weights), FAbs(ar_phi)))>>
              \o BlendAr(inn, ar, ar_phi)))

MeanReversionOverrideOff(c) == FALSE

\* if config.mean_reversion.enable
MeanReversionOverride(c) == c.mean_reversion.enable

make_time_series_with_config_inner(rng, c) ==
    IF MeanReversionOverride(c)
    THEN Eval(generate_ornstein_uhlenbeck(rng, c.nper, c.mean_reversion),
              LAMBDA ou : [rng |-> ou.rng, returns |-> ou.values,
                           values |-> ou.values, stages |-> {"ou"}])
    ELSE Eval(InnovationLoop(
                  [rng |-> rng, chain |-> create_regime_chain(c.regimes),
                   current_regime |-> 0, innovations |-> <<>>], c),
              LAMBDA inn :
         Eval(apply_garch_volatility(inn.innovations, c.garch),
              LAMBDA innovations :
         Eval(AR1SampleN(inn.rng, c.nper, c.ar_phi, Unit, 0), LAMBDA ar_weights :
         Eval(BlendAr(innovations, ar_weights.values, c.ar_phi), LAMBDA blended :
         Eval(apply_event_windows(ar_weights.rng, blended, c.event_windows),
              LAMBDA ev :
                [rng |-> ev.rng, returns |-> ev.values,
                 values |-> IF c.cumulative THEN CumSum(ev.values, 0)
                            ELSE ev.values,
                 stages |-> PipelineStages(c)])))))

CrossCorrelatedInclusive(c) == c.cross_correlation >= 0

\* config.cross_correlation > 0.0
CrossCorrelated(c) == c.cross_correlation > 0

RECURSIVE BlendCommon(_, _, _)
\* (1.0 - rho.sqrt()) * v + rho.sqrt() * f over the zip of the two series
BlendCommon(values, common_factor, rho) ==
    IF values = <<>> \/ common_factor = <<>> THEN <<>>
    ELSE Eval(Tail(values), LAMBDA v :
         Eval(Tail(common_factor), LAMBDA f :
              <<FAdd(FMul(Unit - FSqrt(rho), Head(values)),
                     FMul(FSqrt(rho), Head(common_factor)))>>
              \o BlendCommon(v, f, rho)))

ALPHABET ==
    <<"A", "B", "C", "D", "E", "F", "G", "H", "I", "J", "K", "L", "M",
      "N", "O", "P", "Q", "R", "S", "T", "U", "V", "W", "X", "Y", "Z">>

\* ALPHABET.chars().take(k).collect()
get_cols(k) == SubSeq(ALPHABET, 1, Min(k, Len(ALPHABET)))

\* a date is a number of days after 1 January 2000, a Saturday
Weekend(date) == date % 7 \in {0, 1}

RECURSIVE BusinessDays(_, _, _)
\* while dates.len() < k { if not Sat or Sun { push(current) }; current += 1 }
BusinessDays(k, current, dates) ==
    IF Len(dates) >= k THEN dates
    ELSE Eval(IF Weekend(current) THEN dates ELSE Append(dates, current),
              LAMBDA pushed : BusinessDays(k, current + 1, pushed))

make_date_index(k, freq) ==
    CASE freq = "D" -> [i \in 1..k |-> i - 1]
      [] freq = "W" -> [i \in 1..k |-> 7 * (i - 1)]
      [] freq = "M" -> [i \in 1..k |-> (i - 1) * 30]
      [] OTHER -> BusinessDays(k, 0, <<>>)

\* the sub-configurations tried when enabled
EnabledRegimes == [DefaultRegimes EXCEPT !.enable = TRUE]

\* one regime that does not always stay: no MarkovChain can be built
SingleRegime ==
    [DefaultRegimes EXCEPT !.enable = TRUE, !.n_regimes = 1,
                           !.volatility_multipliers = <<2500>>]

EnabledJumps == [DefaultJumps EXCEPT !.enable = TRUE, !.jump_probability = 500]

EnabledIntraday == [DefaultIntraday EXCEPT !.enable = TRUE]

EnabledEventWindows ==
    [DefaultEventWindows EXCEPT !.enable = TRUE, !.event_indices = <<1>>,
                                !.pre_event_window = 1, !.post_event_window = 1]

\* the configurations make_time_series_with_rng builds for get_time_series:
\* the defaults with nper and freq, over the column counts and seeds tried
PlainConfigs ==
    { [DefaultTimeseries EXCEPT
          !.nper = nper, !.ncol = ncol, !.freq = freq, !.seed = seed] :
        nper \in {0, 1, MaxPer},
        ncol \in {0, 1, Len(ALPHABET), Len(ALPHABET) + 1},
        freq \in {"B", "D", "W", "M", "H"},
        seed \in {NoSeed, U64FortyTwo} }

\* the TimeseriesConfig values tried: every combination of the enable
\* flags, GARCH parameters on both sides of alpha + beta = 1, and two
\* settings of the scalar parameters
FlagConfigs ==
    { [DefaultTimeseries EXCEPT
          !.nper = nper, !.ncol = ncol, !.seed = U64FortyTwo,
          !.sigma = sc[1], !.drift = sc[2], !.ar_phi = sc[3],
          !.degrees_freedom = sc[4],
          !.cumulative = cumulative, !.use_fat_tails = fat,
          !.cross_correlation = rho,
          !.regimes = reg,
          !.jumps = IF jmp THEN EnabledJumps ELSE DefaultJumps,
          !.garch = g,
          !.mean_reversion = [DefaultMeanReversion EXCEPT !.enable = mr],
          !.intraday = IF intr THEN EnabledIntraday ELSE DefaultIntraday,
          !.event_windows = IF evt THEN EnabledEventWindows ELSE DefaultEventWindows] :
        nper \in {MaxPer}, ncol \in {MaxCol},
        sc \in {<<1000, 0, 950, 5000>>, <<500, 100, 0 - 500, 2000>>},
        cumulative \in BOOLEAN, fat \in BOOLEAN, rho \in {0 - 250, 0, 250},
        reg \in {DefaultRegimes, EnabledRegimes, SingleRegime},
        jmp \in BOOLEAN, g \in GarchConfigs, mr \in BOOLEAN,
        intr \in BOOLEAN, evt \in BOOLEAN }

TimeseriesConfigs == FlagConfigs \cup PlainConfigs

\* a call of get_time_series(nper, freq, ncol, seed) or of
\* get_time_series_with_config(config)
SeriesInit ==
    /\ today = 200
    /\ \E entry \in {"get_time_series", "get_time_series_with_config"} :
         /\ tsconfig \in IF entry = "get_time_series" THEN PlainConfigs
                         ELSE TimeseriesConfigs
         /\ ts = [phase |-> "called", entry |-> entry]
    /\ StreamIdle /\ ParIdle /\ SessIdle
    /\ ChainIdle /\ KernIdle /\ CfgdIdle /\ CallIdle

\* either call up to its column loop: the random source is created, the
\* column names and the index are made and, in get_time_series_with_config
\* with a positive cross_correlation, the common factor is drawn
SeriesBegin ==
    /\ ts.phase = "called"
    /\ \E entropy \in 0..MaxEntropy :
         /\ tsconfig.seed # NoSeed => entropy = 0
         /\ LET rng == SeriesRng(IF tsconfig.seed = NoSeed THEN entropy
                                 ELSE SeedFromU64(tsconfig.seed))
                factor == make_time_series_with_config_inner(rng, tsconfig)
                begun == [phase |-> "columns", entry |-> ts.entry,
                          cols |-> get_cols(tsconfig.ncol),
                          index |-> make_date_index(tsconfig.nper, tsconfig.freq),
                          rng0 |-> rng, rng |-> rng, common_factor |-> <<>>,
                          inner_calls |-> 0, columns |-> <<>>]
            IN ts' = IF ts.entry = "get_time_series_with_config"
                        /\ CrossCorrelated(tsconfig)
                     THEN [begun EXCEPT !.rng = factor.rng,
                                        !.common_factor = factor.values,
                                        !.inner_calls = 1]
                     ELSE begun
    /\ UNCHANGED <<today, streamVars, parVars, sessVars, chainVars, kernVars,
                   tsconfig, cfgdVars, callVars>>

\* one iteration of the column loop: the column's own series, the blend
\* with the common factor, columns.push
SeriesColumn ==
    /\ ts.phase = "columns"
    /\ Len(ts.columns) < Len(ts.cols)
    /\ LET own == make_time_series_with_config_inner(ts.rng, tsconfig)
           values == IF /\ ts.entry = "get_time_series_with_config"
                        /\ CrossCorrelated(tsconfig) /\ ts.common_factor # <<>>
                     THEN BlendCommon(own.values, ts.common_factor,
                                      tsconfig.cross_correlation)
                     ELSE own.values
       IN ts' = [ts EXCEPT
                   !.rng = own.rng,
                   !.inner_calls = @ + 1,
                   !.columns = Append(@, [name |-> ts.cols[Len(ts.columns) + 1],
                                          values |-> values, own |-> own.values,
                                          returns |-> own.returns,
                                          stages |-> own.stages,
                                          before |-> ts.rng, after |-> own.rng])]
    /\ UNCHANGED <<today, streamVars, parVars, sessVars, chainVars, kernVars,
                   tsconfig, cfgdVars, callVars>>

\* the column loop is over: TimeSeriesDataWithMetrics is returned
SeriesReturn ==
    /\ ts.phase = "columns"
    /\ Len(ts.columns) >= Len(ts.cols)
    /\ ts' = [ts EXCEPT !.phase = "returned"]
    /\ UNCHANGED <<today, streamVars, parVars, sessVars, chainVars, kernVars,
                   tsconfig, cfgdVars, callVars>>

SeriesNext ==
    \/ SeriesBegin
    \/ SeriesColumn
    \/ SeriesReturn

SpecSeries == SeriesInit /\ [][SeriesNext]_vars

\* ----------------------------------------------------------- configured
\* superstore_with_config up to the fields of a row that come from the
\* pre-generated variates: the correlation matrix, the GaussianCopula built
\* from it or the independent uniforms taken in its place, and per row the
\* sales, quantity, discount and profit bases.  Correlations are in
\* thousandths, uniform variates in ten-thousandths.

\* SuperstoreConfig::default(), the fields read here
DefaultSuperstore ==
    [count |-> 1000, pool_size |-> 1000, seed |-> NoSeed,
     min_sales |-> 100, max_sales |-> 10000,
     min_quantity |-> 1, max_quantity |-> 100, max_discount_percent |-> 50,
     sales_quantity_correlation |-> 700, sales_profit_correlation |-> 600,
     discount_profit_correlation |-> 0 - 400, enable_cohorts |-> FALSE,
     regions |-> <<"West", "East", "Central", "South">>]

Clamp99(x) == IF x < 0 - 990 THEN 0 - 990 ELSE IF x > 990 THEN 990 ELSE x

\* the 4x4 matrix over [Sales, Quantity, Discount, Profit]
CorrelationMatrix(c) ==
    LET sq == c.sales_quantity_correlation
        sp == c.sales_profit_correlation
        dp == c.discount_profit_correlation
        qp == Clamp99(MulDown(sq, sp))
        ds == Clamp99(0 - 200)
        dq == Clamp99(100)
    IN << <<Unit, sq, ds, sp>>,
          <<sq, Unit, dq, qp>>,
          <<ds, dq, Unit, dp>>,
          <<sp, qp, dp, Unit>> >>

RECURSIVE CholeskyDot(_, _, _, _)
\* l[i][1] * l[j][1] + .. + l[i][k] * l[j][k]
CholeskyDot(l, i, j, k) ==
    IF k = 0 THEN 0
    ELSE FAdd(CholeskyDot(l, i, j, k - 1), FMul(l[i][k], l[j][k]))

\* one entry of the lower-triangular factor, row st.i, column st.j; a
\* negative pivot ends the factorization
CholeskyEntry(st, a) ==
    LET sum == CholeskyDot(st.l, st.i, st.j, st.j - 1)
        rest == FSub(a[st.i][st.j], sum)
        last == st.j = st.i
        entry == IF last THEN FSqrt(rest) ELSE FDiv(rest, st.l[st.j][st.j])
    IN IF last /\ rest # NonFinite /\ rest < 0
       THEN [st EXCEPT !.ok = FALSE]
       ELSE [st EXCEPT !.l[st.i][st.j] = entry,
                       !.i = IF last THEN st.i + 1 ELSE st.i,
                       !.j = IF last THEN 1 ELSE st.j + 1]

RECURSIVE CholeskyLoop(_, _)
CholeskyLoop(st, a) ==
    IF ~st.ok \/ st.i > Len(a) THEN st
    ELSE Eval(CholeskyEntry(st, a), LAMBDA next : CholeskyLoop(next, a))

\* GaussianCopula::new: Ok with the Cholesky factor, or Err
GaussianCopulaNew(a) ==
    Eval(CholeskyLoop([l |-> [i \in 1..Len(a) |-> [j \in 1..Len(a) |-> 0]],
                       i |-> 1, j |-> 1, ok |-> TRUE], a),
         LAMBDA done : [ok |-> done.ok, cholesky |-> done.l])

PhiKnots == <<13, 228, 1587, 5000, 8413, 9772, 9987>>

\* the standard normal distribution function of x (thousandths), in
\* ten-thousandths: linear between its values at -3, -2, .., 3
Phi(x) ==
    IF x = NonFinite THEN NonFinite
    ELSE IF x <= 0 - 3 * Unit THEN PhiKnots[1]
    ELSE IF x >= 3 * Unit THEN PhiKnots[7]
    ELSE LET k == (x + 3 * Unit) \div Unit
             frac == (x + 3 * Unit) % Unit
         IN PhiKnots[k + 1] + ((PhiKnots[k + 2] - PhiKnots[k + 1]) * frac) \div Unit

RECURSIVE NormalDraws(_, _)
\* k standard normal draws: the values, and the random source after them
NormalDraws(st, k) ==
    IF Len(st.values) >= k THEN st
    ELSE Eval(NormalSample(st.rng, 0, Unit), LAMBDA z :
         Eval([rng |-> z.rng, values |-> Append(st.values, z.value)],
              LAMBDA next : NormalDraws(next, k)))

RECURSIVE UniformDraws(_, _)
\* k times rng.gen::<f64>()
UniformDraws(st, k) ==
    IF Len(st.values) >= k THEN st
    ELSE Eval(Advance(st.rng), LAMBDA r :
         Eval([rng |-> r, values |-> Append(st.values, Uniform(r.x))],
              LAMBDA next : UniformDraws(next, k)))

\* one row of GaussianCopula::sample_n: K normals, the product with the
\* factor, the distribution function of each coordinate
CopulaRow(rng, l) ==
    Eval(NormalDraws([rng |-> rng, values |-> <<>>], Len(l)), LAMBDA z :
         [rng |-> z.rng,
          values |-> [i \in 1..Len(l) |->
                        Phi(FAdd(FAdd(FMul(l[i][1], z.values[1]),
                                      FMul(l[i][2], z.values[2])),
                                 FAdd(FMul(l[i][3], z.values[3]),
                                      FMul(l[i][4], z.values[4]))))]])

RECURSIVE VariateRows(_, _, _, _)
\* count rows of four variates, from the copula or, without one, from
\* four independent uniforms each
VariateRows(st, count, copula, independent) ==
    IF Len(st.rows) >= count THEN st
    ELSE Eval(IF independent
              THEN UniformDraws([rng |-> st.rng, values |-> <<>>], 4)
              ELSE CopulaRow(st.rng, copula.cholesky),
              LAMBDA row :
         Eval([rng |-> row.rng, rows |-> Append(st.rows, row.values)],
              LAMBDA next : VariateRows(next, count, copula, independent)))

\* `if let Ok(copula) = GaussianCopula::new(..) { .. } else { .. }`: whether
\* the else branch, independent uniform values, is taken
CopulaFallback(copula) == ~copula.ok

\* a bound of the variate u-th of the way from lo to lo + range
Rescale(lo, range, u) ==
    IF u = NonFinite THEN NonFinite ELSE lo + (u * range) \div Scale

\* the fields of SuperstoreRow computed from the variates of the row
ConfiguredRow(c, id, uniforms) ==
    [row_id |-> AsI32(id),
     base_sales |-> Rescale(c.min_sales, c.max_sales - c.min_sales, uniforms[1]),
     base_quantity |-> Rescale(c.min_quantity, c.max_quantity - c.min_quantity,
                               uniforms[2]),
     discount |-> Rescale(0, c.max_discount_percent * 100, uniforms[3]),
     base_profit |-> Rescale(0 - 500, 3500, uniforms[4])]

RECURSIVE RngJump(_, _)
\* the state of the random source k draws after state x
RngJump(x, k) ==
    IF k = 0 THEN x
    ELSE IF k % 2 = 1 THEN RngStep(RngJump(x, k - 1))
    ELSE Eval(RngJump(x, k \div 2), LAMBDA half : RngJump(half, k \div 2))

\* superstore_with_config with a seed, up to the first row it pushes: the
\* location pool, the variates of all rows (four draws a row from the
\* copula as from the fallback), then the dates and the region of row 0
FirstConfiguredRow(c, now) ==
    LET pooled == RngJump(SeedFromU64(c.seed), 3 * c.pool_size)
        drawn == RngJump(pooled, 4 * c.count)
        order_date == random_date_this_year(drawn)
        ship_date == random_date_between(order_date.rng, order_date.date, now)
        region == RngStep(ship_date.rng)
    IN [row_id |-> AsI32(0), order_date |-> order_date.date,
        ship_date |-> ship_date.date,
        region |-> c.regions[(region % Len(c.regions)) + 1]]

\* superstore(count, seed, pool_size) with pool_size None
superstore(count, seed) ==
    [DefaultSuperstore EXCEPT !.count = count, !.seed = seed]

CorrGrid == {0 - 900, 0 - 400, 600, 700, 900}

\* the SuperstoreConfig values tried
SuperstoreConfigs ==
    { [DefaultSuperstore EXCEPT
          !.count = count, !.pool_size = 2, !.seed = seed,
          !.sales_quantity_correlation = sq,
          !.sales_profit_correlation = sp,
          !.discount_profit_correlation = dp] :
        count \in 0..MaxCount, seed \in {NoSeed, U64FortyTwo},
        sq \in CorrGrid, sp \in CorrGrid, dp \in CorrGrid }

CfgdInit ==
    /\ today = 200
    /\ sscfg \in SuperstoreConfigs
    /\ ss = [phase |-> "called"]
    /\ StreamIdle /\ ParIdle /\ SessIdle
    /\ ChainIdle /\ KernIdle /\ SeriesIdle /\ CallIdle

\* create_rng and the location pool: pool_size cities, states and zip codes
CfgdPools ==
    /\ ss.phase = "called"
    /\ \E entropy \in 0..MaxEntropy :
         /\ sscfg.seed # NoSeed => entropy = 0
         /\ LET rng == SeriesRng(IF sscfg.seed = NoSeed THEN entropy
                                 ELSE SeedFromU64(sscfg.seed))
                location_pool == UniformDraws([rng |-> rng, values |-> <<>>],
                                              3 * sscfg.pool_size)
            IN ss' = [phase |-> "pools", rng |-> location_pool.rng]
    /\ UNCHANGED <<today, streamVars, parVars, sessVars, chainVars, kernVars,
                   seriesVars, sscfg, callVars>>

\* the correlation matrix, GaussianCopula::new, and the variates of all rows
CfgdVariates ==
    /\ ss.phase = "pools"
    /\ LET copula == GaussianCopulaNew(CorrelationMatrix(sscfg))
           drawn == VariateRows([rng |-> ss.rng, rows |-> <<>>], sscfg.count,
                                copula, CopulaFallback(copula))
       IN ss' = [phase |-> "rows", rng |-> drawn.rng,
                 source |-> IF CopulaFallback(copula) THEN "independent"
                            ELSE "copula",
                 correlated_values |-> drawn.rows, data |-> <<>>]
    /\ UNCHANGED <<today, streamVars, parVars, sessVars, chainVars, kernVars,
                   seriesVars, sscfg, callVars>>

\* one iteration of `for (id, uniforms) in correlated_values`: data.push(row)
CfgdRow ==
    /\ ss.phase = "rows"
    /\ Len(ss.data) < Len(ss.correlated_values)
    /\ LET id == Len(ss.data) IN
       ss' = [ss EXCEPT !.data = Append(@, ConfiguredRow(sscfg, id,
                                               ss.correlated_values[id + 1]))]
    /\ UNCHANGED <<today, streamVars, parVars, sessVars, chainVars, kernVars,
                   seriesVars, sscfg, callVars>>

\* the loop is over: data is returned
CfgdReturn ==
    /\ ss.phase = "rows"
    /\ Len(ss.data) >= Len(ss.correlated_values)
    /\ ss' = [ss EXCEPT !.phase = "returned"]
    /\ UNCHANGED <<today, streamVars, parVars, sessVars, chainVars, kernVars,
                   seriesVars, sscfg, callVars>>

CfgdNext ==
    \/ CfgdPools
    \/ CfgdVariates
    \/ CfgdRow
    \/ CfgdReturn

SpecConfigured == CfgdInit /\ [][CfgdNext]_vars

\* ----------------------------------------------------- parallel: claims

\* ceil(count / n), by cases
CeilDiv(count, n) == IF count % n = 0 THEN count \div n ELSE (count \div n) + 1

RECURSIVE Range(_, _)
\* lo, lo + 1, ..., hi - 1 as a sequence (empty when lo >= hi)
Range(lo, hi) == IF lo >= hi THEN <<>> ELSE <<lo>> \o Range(lo + 1, hi)

RowIds(rows) == [k \in 1..Len(rows) |-> rows[k].row_id]

\* the u64 after s, wrapping from 2^64 - 1 to 0
U64Succ(s) ==
    IF s[4] < 65535 THEN <<s[1], s[2], s[3], s[4] + 1>>
    ELSE IF s[3] < 65535 THEN <<s[1], s[2], s[3] + 1, 0>>
    ELSE IF s[2] < 65535 THEN <<s[1], s[2] + 1, 0, 0>>
    ELSE IF s[1] < 65535 THEN <<s[1] + 1, 0, 0, 0>>
    ELSE <<0, 0, 0, 0>>

RECURSIVE U64Plus(_, _)
\* (s + i) mod 2^64 as i successors of s
U64Plus(s, i) == IF i = 0 THEN s ELSE U64Succ(U64Plus(s, i - 1))

\* the rows the closure of thread_idx i produces when it runs alone, from
\* the seed, count and worker count of the call
SoloRows(c, i, now) ==
    LET size == CeilDiv(c.count, c.num_threads)
        lo == i * size
        hi == Min(lo + size, c.count)
    IN RowLoop(c.kind, SeedFromU64(U64Plus(c.seed, i)), lo, hi, now).chunk

RECURSIVE SoloConcat(_, _, _)
\* the solo rows of workers 0 .. n - 1, concatenated in index order
SoloConcat(c, n, now) ==
    IF n = 0 THEN <<>> ELSE SoloConcat(c, n - 1, now) \o SoloRows(c, n - 1, now)

IsPrefix(p, q) == Len(p) <= Len(q) /\ \A k \in 1..Len(p) : p[k] = q[k]

\* C4: a parallel call returns exactly count rows, for every count >= 0 and
\* every worker count >= 1, also when there are more workers than rows.
C4_ParallelCount ==
    call.phase = "returned" => Len(result) = call.count

C4_Witness ==
    /\ call.phase = "returned"
    /\ call.count = 2 /\ call.num_threads = 3
    /\ Len(result) = 2
    /\ workers[2].chunk = <<>>

\* C5: the call returns only after every worker has finished, and for a
\* supplied seed its result is the workers' outputs concatenated in
\* worker-index order, whatever the interleaving and the completion order.
C5_OrderIndependent ==
    call.phase = "returned" =>
        /\ \A i \in DOMAIN workers : workers[i].pc = "done"
        /\ call.seed # NoSeed => result = SoloConcat(call, call.num_threads, today)

C5_Witness ==
    /\ call.phase = "returned"
    /\ call.seed # NoSeed
    /\ call.num_threads = 3 /\ call.count = 3
    /\ completion = <<2, 0, 1>>
    /\ Len(result) = 3

C7_WrappingSeeds ==
    \A i \in DOMAIN workers :
        workers[i].pc = "running" \/ (workers[i].pc = "done" /\ workers[i].chunk # <<>>) =>
            /\ call.seed # NoSeed =>
                  /\ workers[i].seed = U64Plus(call.seed, i)
                  /\ \A j \in DOMAIN workers :
                        (j # i /\ workers[j].seed # NoSeed) => workers[j].seed # workers[i].seed
            /\ call.seed = NoSeed => workers[i].seed = NoSeed

C7_Witness ==
    /\ call.phase = "returned"
    /\ call.seed = U64Max
    /\ call.num_threads = 3 /\ call.count = 3
    /\ workers[0].seed = U64Max
    /\ workers[1].seed = U64Zero
    /\ workers[2].seed = <<0, 0, 0, 1>>

\* C8: with a base seed, what a worker has produced is at every moment a
\* prefix of what it produces when run alone, a function of its index only;
\* and a step of the computation changes the state (random source, rows) of
\* at most one worker.
C8_WorkerIsolation ==
    /\ [](\A i \in DOMAIN workers :
            (call.seed # NoSeed /\ workers[i].pc # "ready") =>
                /\ IsPrefix(workers[i].chunk, SoloRows(call, i, today))
                /\ workers[i].pc = "done" => workers[i].chunk = SoloRows(call, i, today))
    /\ [][\A i \in DOMAIN workers : \A j \in DOMAIN workers :
            (i # j /\ i \in DOMAIN workers' /\ j \in DOMAIN workers') =>
                (workers'[i] = workers[i] \/ workers'[j] = workers[j])]_vars

C8_Witness ==
    /\ call.phase = "running"
    /\ call.seed # NoSeed
    /\ call.num_threads = 2 /\ call.count = 3
    /\ workers[1].pc = "done" /\ Len(workers[1].chunk) = 1
    /\ workers[0].pc = "running" /\ Len(workers[0].chunk) = 1
    /\ completion = <<1>>

RECURSIVE SumTo(_, _)
\* the sum of the first k elements of a sequence of numbers
SumTo(q, k) == IF k = 0 THEN 0 ELSE SumTo(q, k - 1) + q[k]

\* C1: for one total_count and seed, two streams that differ only in their
\* chunk size (both >= 1) yield the same rows in the same order: at any time
\* the rows yielded so far agree position by position, and once both streams
\* have ended the two concatenations are equal.
C1_ChunkSizeInvariant ==
    (iters[1].chunk_size >= 1 /\ iters[2].chunk_size >= 1) =>
        /\ \A k \in 1..Min(Len(outs[1]), Len(outs[2])) : outs[1][k] = outs[2][k]
        /\ (ended[1] /\ ended[2]) => outs[1] = outs[2]

C1_Witness ==
    /\ ended[1] /\ ended[2]
    /\ iters[1].kind = "superstore"
    /\ iters[1].chunk_size = 1 /\ iters[2].chunk_size = 3
    /\ Len(lens[1]) = 4 /\ Len(lens[2]) = 2
    /\ outs[1] = outs[2]
    /\ \E k \in 1..4 : outs[1][k].order_date < today
    /\ \E k \in 1..4 : outs[1][k].order_date >= today

\* C2: every chunk yielded has min(chunk_size, total_count - rows already
\* yielded) rows: chunk_size rows when rows remain after it, and between 1
\* and chunk_size rows when it is the last.
C2_ChunkLengths ==
    \A i \in 1..2 : \A k \in 1..Len(lens[i]) :
        LET before == SumTo(lens[i], k - 1)
            total == iters[i].total_count
            size == iters[i].chunk_size
        IN /\ lens[i][k] = Min(size, total - before)
           /\ before + lens[i][k] < total => lens[i][k] = size
           /\ before + lens[i][k] >= total => (1 <= lens[i][k] /\ lens[i][k] <= size)

C2_Witness ==
    /\ ended[1]
    /\ iters[1].total_count = 4 /\ iters[1].chunk_size = 3
    /\ lens[1] = <<3, 1>>

\* C3: every stream ends after finitely many pulls, at most total_count + 1
\* of them since a chunk holds at least one row, and the chunk lengths then
\* sum to total_count.
C3_StreamEnds ==
    \A i \in 1..2 :
        /\ pulls[i] > iters[i].total_count => ended[i]
        /\ ended[i] => SumTo(lens[i], Len(lens[i])) = iters[i].total_count

\* ----------------------------------------------------- sessions: claims

\* C10: a session's navigation takes at most 50 chain steps, and none after
\* a step that returned 'purchase' or 'exit'; every session pushed has
\* between 1 and 51 pages viewed, and every session that is begun is pushed
\* after at most 50 steps.
C10_StepBudget ==
    /\ [](/\ sess.steps <= 50
          /\ sess.pc # "idle" => (1 <= sess.pages_viewed /\ sess.pages_viewed <= 51)
          /\ sess.pc # "idle" => sess.pages_viewed = 1 + sess.steps
          /\ (sess.pc = "nav" /\ sess.steps > 0) =>
                sess.state_name \notin {"purchase", "exit"})
    /\ [][(sess.pc = "nav" /\ sess'.steps = sess.steps + 1
             /\ sess'.state_name \in {"purchase", "exit"}) => sess'.pc = "finish"]_vars
    /\ [][(sess.pc = "nav" /\ sess.steps = 50) => sess'.pc = "finish"]_vars
    /\ [][nsessions' = nsessions + 1 =>
             (1 <= sess.pages_viewed /\ sess.pages_viewed <= 51)]_vars

C10_Witness ==
    /\ sess.pc = "finish"
    /\ sess.pages_viewed = 51
    /\ sess.steps = 50
    /\ ~sess.converted /\ ~sess.bounced
    /\ sess.state_name \notin {"purchase", "exit"}
    /\ nsessions = 1

\* the labels a row gives a positive probability
Reachable(row) == {SESSION_STATES[j] : j \in {k \in 1..Len(row.w) : row.w[k] > 0}}

\* C12: the one chain of generate_sessions is on state 0 ('landing') when a
\* session's navigation starts, whatever state the previous session left it
\* in, so the first transition of every session is drawn from the 'landing'
\* row; a session that bounced takes no step and leaves the chain on state 0.
C12_ResetEachSession ==
    /\ []((sess.pc = "nav" /\ sess.steps = 0) => mc.current_state = 0)
    /\ []((sess.pc = "finish" /\ sess.bounced) => (mc.current_state = 0 /\ sess.steps = 0))
    /\ [][(sess.pc = "nav" /\ sess.steps = 0 /\ sess'.steps = 1) =>
             /\ \E u \in UValues :
                   mc'.current_state =
                       MarkovNext([mc EXCEPT !.current_state = 0], u).current_state
             /\ sess'.state_name \in Reachable(mc.transition_matrix[1])]_vars

C12_Witness ==
    /\ nsessions = 1
    /\ sess.pc = "nav"
    /\ sess.steps = 1
    /\ sess.state_name = "view_product"
    /\ mc.current_state = 2

\* ------------------------------------------------------- chain: claims

\* a row is a probability distribution: no negative entry, and it sums to 1
ValidRow(row) ==
    /\ \A j \in 1..Len(row.w) : row.w[j] >= 0
    /\ RowSum(row.w, Len(row.w)) = row.den

\* the row of state index i is the identity row
Absorbing(c, i) ==
    LET row == c.transition_matrix[i + 1] IN
    \A j \in 1..Len(row.w) : row.w[j] = IF j = i + 1 THEN row.den ELSE 0

\* C11: for every SessionConfig whose four probabilities lie in [0, 1], every
\* row of the matrix build_session_transition_matrix returns is a probability
\* distribution: all entries >= 0 and the row sums to 1.
C11_ValidRows ==
    markov.states = SESSION_STATES =>
        /\ Len(markov.transition_matrix) = 9
        /\ \A i \in 1..9 :
              /\ Len(markov.transition_matrix[i].w) = 9
              /\ ValidRow(markov.transition_matrix[i])

\* C13: every next() of a constructed chain, from any starting state, returns
\* a label of the chain's label set and leaves the cursor on that label's
\* index; from an absorbing state (identity row) it returns that state's
\* label again.
C13_NextStaysInLabels ==
    /\ [](label # "" =>
            /\ \E j \in 1..Len(markov.states) : markov.states[j] = label
            /\ markov.current_state < Len(markov.states)
            /\ markov.states[markov.current_state + 1] = label)
    /\ [][(nexts' = nexts + 1 /\ Absorbing(markov, markov.current_state)) =>
             /\ markov'.current_state = markov.current_state
             /\ label' = markov.states[markov.current_state + 1]]_vars

C13_Witness ==
    /\ markov.states = RegimeStates(3)
    /\ Absorbing(markov, 1)
    /\ markov.current_state = 1
    /\ nexts = 3
    /\ label = "regime_1"

\* ----------------------------------------------------- kernels: claims

\* |a - b| <= tol
Within(a, b, tol) == a - b <= tol /\ b - a <= tol

\* the run the claim is about: omega = 0.05, alpha = 0.1, beta = 0.85 over
\* 100 zero returns
GarchZeroRun ==
    /\ garch.phase \in {"loop", "returned"}
    /\ garch.config = [DefaultGarch EXCEPT !.enable = TRUE]
    /\ Len(garch.innovations) >= 100
    /\ \A k \in (garch.i + 1)..Len(garch.innovations) : garch.innovations[k] = 0

\* C14 as stated: the long-run variance is 1.0 and the conditional variance
\* over the all-zero buffer is within 1e-6 of 1.0 from t = 50 on.
C14_ConvergesToOne ==
    GarchZeroRun =>
        /\ LongRunVariance(garch.config) = Unit * Unit
        /\ garch.i >= 50 => Within(garch.variance, Unit * Unit, 1)

\* C14 amended: the long-run variance is 1.0 and the recursion starts on it
\* (v = 1.0 after the first iteration); over the all-zero buffer v then
\* decreases, strictly up to t = 50, towards omega / (1 - beta) = 1/3, and
\* is within 1e-3 of 1/3, not of 1.0, from t = 50 on.
C14_ConvergesToThird ==
    /\ [](GarchZeroRun =>
            /\ LongRunVariance(garch.config) = Unit * Unit
            /\ garch.i <= 1 => garch.variance = Unit * Unit
            /\ garch.i >= 50 => Within(3 * garch.variance, Unit * Unit, 3 * Unit)
            /\ \A k \in 1..garch.i : garch.innovations[k] = 0)
    /\ [][(GarchZeroRun /\ garch.i >= 1 /\ garch'.i = garch.i + 1) =>
             /\ garch'.variance <= garch.variance
             /\ garch.i < 50 => garch'.variance < garch.variance
             /\ 3 * garch'.variance > Unit * Unit - 30]_vars

C14_Witness ==
    /\ GarchZeroRun
    /\ garch.phase = "loop"
    /\ garch.i = 50
    /\ Within(3 * garch.variance, Unit * Unit, 3 * Unit)
    /\ ~Within(garch.variance, Unit * Unit, 600 * Unit)

\* C16: with use_fat_tails and degrees_freedom <= 2 sample_innovation fails
\* in no way and takes the plain-normal branch, one normal draw scaled by
\* sigma, exactly as with use_fat_tails off; the Student-t branch, one draw
\* and then ceil(df / 2) pairs of draws, is taken only with use_fat_tails
\* and degrees_freedom > 2.
C16_FatTailFallback ==
    innov.phase = "returned" =>
        LET a == innov.args
            z == StdNormal(RngStep(a.x))
            pairs == IF a.df % 2000 = 0 THEN a.df \div 2000 ELSE (a.df \div 2000) + 1
        IN /\ (~a.use_fat_tails \/ a.df <= 2000) =>
                 /\ innov.draws = 1
                 /\ innov.rng = RngStep(a.x)
                 /\ innov.value = MulDown(a.sigma, z)
           /\ (a.use_fat_tails /\ a.df > 2000) => innov.draws = 1 + 2 * pairs
           /\ innov.draws > 1 => (a.use_fat_tails /\ a.df > 2000)
           /\ innov.value # NonFinite

C16_Witness ==
    /\ innov.phase = "returned"
    /\ innov.args.use_fat_tails
    /\ innov.args.df = 2000
    /\ innov.args.sigma = 2500
    /\ innov.draws = 1
    /\ innov.value = 3750

\* ---------------------------------------------------------------- series

\* C15: a series configuration with GARCH enabled and alpha + beta >= 1 is
\* rejected before any value is generated: the call never gets as far as
\* its column loop, no column is produced and nothing is returned.
C15_GarchRejected ==
    (tsconfig.garch.enable /\ tsconfig.garch.alpha + tsconfig.garch.beta >= Unit)
        => ts.phase = "called"

RECURSIVE RngAfter(_, _)
\* the state of the random source k draws after state x
RngAfter(x, k) == IF k = 0 THEN x ELSE RngAfter(RngStep(x), k - 1)

RECURSIVE OuPath(_, _, _, _)
\* the first k values of x += theta * (mu - x) + sigma * dW from x, dW being
\* the standard normal variates of the draws that follow rng state rx
OuPath(x, rx, k, c) ==
    IF k = 0 THEN <<>>
    ELSE LET next == x + MulDown(c.theta, c.mu - x)
                       + MulDown(c.sigma, StdNormal(RngStep(rx)))
         IN <<next>> \o OuPath(next, RngStep(rx), k - 1, c)

\* C17: with mean_reversion.enable every column is the Ornstein-Uhlenbeck
\* path started at mu, computed from the state of the random source before
\* the column and theta, mu, sigma alone, with one draw per step and no
\* other draw; no stage of the innovation pipeline runs.  Without a
\* positive cross_correlation that path is the column returned and the
\* first column starts from the freshly seeded source.
C17_OuOnly ==
    (tsconfig.mean_reversion.enable /\ ts.phase # "called") =>
        \A k \in 1..Len(ts.columns) :
            LET col == ts.columns[k] IN
            /\ col.own = OuPath(tsconfig.mean_reversion.mu, col.before.x,
                                tsconfig.nper, tsconfig.mean_reversion)
            /\ col.after.n = col.before.n + tsconfig.nper
            /\ col.after.x = RngAfter(col.before.x, tsconfig.nper)
            /\ col.stages = {"ou"}
            /\ tsconfig.cross_correlation <= 0 =>
                  /\ col.values = col.own
                  /\ k = 1 => col.before = ts.rng0

C17_Witness ==
    /\ ts.phase = "returned"
    /\ tsconfig.mean_reversion.enable
    /\ tsconfig.garch.enable /\ tsconfig.regimes.enable /\ tsconfig.jumps.enable
    /\ tsconfig.use_fat_tails /\ tsconfig.intraday.enable
    /\ tsconfig.sigma = 500 /\ tsconfig.drift = 100
    /\ tsconfig.cross_correlation = 0
    /\ Len(ts.columns) = tsconfig.ncol
    /\ \A k \in 1..Len(ts.columns) :
          /\ Len(ts.columns[k].values) = tsconfig.nper
          /\ ts.columns[k].after.n = k * tsconfig.nper
    /\ ts.columns[1].values # ts.columns[2].values

RECURSIVE RunningSum(_, _)
\* returns[0] + .. + returns[i - 1]
RunningSum(returns, i) ==
    IF i = 0 THEN 0 ELSE FAdd(RunningSum(returns, i - 1), returns[i])

\* C18: with the cumulative flag every column's own series is the running
\* sum of its return series, whatever the other enable flags are; without
\* the flag it is the return series itself.
C18_CumulativeSum ==
    ts.phase # "called" =>
        \A k \in 1..Len(ts.columns) :
            LET col == ts.columns[k] IN
            /\ Len(col.own) = Len(col.returns)
            /\ \A i \in 1..Len(col.own) :
                  col.own[i] = IF tsconfig.cumulative
                               THEN RunningSum(col.returns, i)
                               ELSE col.returns[i]

\* the common factor a call generates: one series from the freshly seeded
\* random source
CommonOf(rng0) == make_time_series_with_config_inner(rng0, tsconfig)

\* C19: with cross_correlation rho > 0 one common series is generated per
\* call, before any column, and every column is
\* (1 - sqrt(rho)) * own + sqrt(rho) * common element by element with that
\* same series; with rho <= 0 no common series is generated, no draw is
\* spent on one and the columns are returned unblended.
C19_CommonFactorOnce ==
    ts.phase # "called" =>
        LET rho == tsconfig.cross_correlation
            n == Len(ts.columns)
        IN IF rho > 0
           THEN /\ ts.common_factor = CommonOf(ts.rng0).values
                /\ ts.inner_calls = 1 + n
                /\ n >= 1 => ts.columns[1].before = CommonOf(ts.rng0).rng
                /\ \A k \in 1..n :
                      LET col == ts.columns[k] IN
                      /\ Len(col.values) = Len(col.own)
                      /\ Len(col.values) = Len(ts.common_factor)
                      /\ \A i \in 1..Len(col.values) :
                            col.values[i] =
                                FAdd(FMul(Unit - FSqrt(rho), col.own[i]),
                                     FMul(FSqrt(rho), ts.common_factor[i]))
           ELSE /\ ts.common_factor = <<>>
                /\ ts.inner_calls = n
                /\ n >= 1 => ts.columns[1].before = ts.rng0
                /\ ts.rng0.n = 0
                /\ \A k \in 1..n : ts.columns[k].values = ts.columns[k].own

C19_Witness ==
    /\ ts.phase = "returned"
    /\ tsconfig.cross_correlation = 250
    /\ ~tsconfig.mean_reversion.enable
    /\ Len(ts.columns) = MaxCol
    /\ ts.inner_calls = MaxCol + 1
    /\ Len(ts.common_factor) = tsconfig.nper
    /\ ts.columns[1].before.n > 0
    /\ \A k \in 1..Len(ts.columns) : ts.columns[k].values # ts.columns[k].own

\* ------------------------------------------------------------ configured

\* C20: a correlation matrix that GaussianCopula construction rejects ends
\* superstore_with_config with an error: the call does not go on to the row
\* loop, and no row is produced from variates of another source.
C20_RejectedMatrixTerminal ==
    ~GaussianCopulaNew(CorrelationMatrix(sscfg)).ok =>
        ss.phase \notin {"rows", "returned"}

\* ------------------------------------------------- series: further claims

\* C21: with regime switching enabled and a RegimeConfig from which no
\* MarkovChain can be constructed, the call reports a configuration error:
\* it never gets as far as its column loop, and no series is generated
\* without regime switching.
C21_ConstructionErrorReported ==
    (tsconfig.regimes.enable /\ ~create_regime_chain(tsconfig.regimes).ok)
        => ts.phase = "called"

\* other parameters for a sub-config that is switched off
AltParameters ==
    [regimes |-> [enable |-> FALSE, n_regimes |-> 3, regime_persistence |-> 500,
                  volatility_multipliers |-> <<2000, 3000, 500>>],
     jumps |-> [enable |-> FALSE, jump_probability |-> 1000, jump_mean |-> 500,
                jump_stddev |-> 100],
     garch |-> [enable |-> FALSE, alpha |-> 200, beta |-> 900, omega |-> 1000],
     intraday |-> [enable |-> FALSE, opening_volatility_mult |-> 3000,
                   midday_volatility_mult |-> 200,
                   closing_volatility_mult |-> 2000],
     event_windows |-> [enable |-> FALSE, event_indices |-> <<0, 1>>,
                        pre_event_window |-> 1, post_event_window |-> 1,
                        abnormal_return_mean |-> 500,
                        abnormal_return_stddev |-> 100],
     mean_reversion |-> [enable |-> FALSE, theta |-> 500, mu |-> 1000,
                         sigma |-> 1000]]

\* the sub-configs of c that are switched off
Disabled(c) == {f \in DOMAIN AltParameters : ~c[f].enable}

\* C22: a disabled sub-config is a no-op: the series of a column, and the
\* random draws it consumed, are the same when the other parameters of any
\* one disabled sub-config are replaced by different values.
C22_DisabledNoOp ==
    (ts.phase \in {"columns", "returned"} /\ ts.columns # <<>>) =>
        LET col == ts.columns[Len(ts.columns)] IN
        \A f \in Disabled(tsconfig) :
            LET other == make_time_series_with_config_inner(
                             col.before, [tsconfig EXCEPT ![f] = AltParameters[f]])
            IN /\ tsconfig[f] # AltParameters[f]
               /\ other.values = col.own
               /\ other.rng = col.after

C22_Witness ==
    /\ ts.phase = "returned"
    /\ ts.entry = "get_time_series_with_config"
    /\ Disabled(tsconfig) = DOMAIN AltParameters
    /\ tsconfig.sigma = 500
    /\ Len(ts.columns) = MaxCol
    /\ Len(ts.columns[MaxCol].own) = MaxPer
    /\ ts.columns[MaxCol].after.n > ts.columns[MaxCol].before.n

\* C23: both calls return exactly ncol columns named 'A', 'B', .. in
\* order, each of exactly nper values, and an index of exactly nper dates.
C23_ColumnsAndIndex ==
    ts.phase = "returned" =>
        /\ Len(ts.index) = tsconfig.nper
        /\ Len(ts.columns) = tsconfig.ncol
        /\ \A k \in 1..Len(ts.columns) :
              /\ ts.columns[k].name = ALPHABET[k]
              /\ Len(ts.columns[k].values) = tsconfig.nper

\* ----------------------------------------------------- streaming: claims

\* C24: the chunks of superstore_stream(total, chunk_size, seed), put end
\* to end, are the rows superstore(total, seed, None) returns: as many
\* rows, numbered alike, every region one that generator chooses from, and
\* the first row with its dates and its region.
C24_StreamEqualsNonChunked ==
    \A i \in 1..2 :
        (ended[i] /\ iters[i].kind = "superstore") =>
            LET c == superstore(iters[i].total_count, seed0) IN
            /\ Len(outs[i]) = c.count
            /\ \A k \in 1..Len(outs[i]) :
                  /\ outs[i][k].row_id = AsI32(k - 1)
                  /\ \E r \in 1..Len(c.regions) : outs[i][k].region = c.regions[r]
            /\ c.count >= 1 =>
                  LET first == FirstConfiguredRow(c, today) IN
                  /\ outs[i][1].order_date = first.order_date
                  /\ outs[i][1].ship_date = first.ship_date
                  /\ outs[i][1].region = first.region


\* ---------------------------------------------------------------- metrics

\* FinancialMetrics::default()
DefaultMetrics ==
    [alpha |-> 0, beta |-> Unit, sharpe_ratio |-> 0, volatility |-> 0,
     max_drawdown |-> 0]

\* (252.0_f64).sqrt()
SqrtTradingDays == 15875

\* f64::NEG_INFINITY: below every finite value
NegInfinity == 2 * NonFinite

PeakKept(val, peak) == peak

\* if val > peak { peak = val }
Peak(val, peak) == IF val > peak THEN val ELSE peak

RECURSIVE SumLoop(_, _, _)
\* iter().sum::<f64>(): acc + seq[k] + .. + seq[Len(seq)]
SumLoop(seq, k, acc) ==
    IF k > Len(seq) THEN acc ELSE SumLoop(seq, k + 1, FAdd(acc, seq[k]))

RECURSIVE CumulativeLoop(_, _, _)
\* for r in returns { cum += r; cumulative.push(cum) }
CumulativeLoop(returns, cum, cumulative) ==
    IF Len(cumulative) >= Len(returns) THEN cumulative
    ELSE Eval(FAdd(cum, returns[Len(cumulative) + 1]), LAMBDA next :
              CumulativeLoop(returns, next, Append(cumulative, next)))

RECURSIVE DrawdownLoop(_, _, _, _)
\* for &val in &cumulative: the peak so far and the largest peak - val
DrawdownLoop(cumulative, k, peak, max_drawdown) ==
    IF k > Len(cumulative) THEN max_drawdown
    ELSE Eval(Peak(cumulative[k], peak), LAMBDA raised :
         Eval(FSub(raised, cumulative[k]), LAMBDA drawdown :
              DrawdownLoop(cumulative, k + 1, raised,
                           IF drawdown > max_drawdown THEN drawdown
                           ELSE max_drawdown)))

\* the deviations of seq from mean, and the products of two such sequences
Deviations(seq, mean) == [k \in 1..Len(seq) |-> FSub(seq[k], mean)]

Products(a, b) == [k \in 1..Len(a) |-> FMul(a[k], b[k])]

\* calculate_financial_metrics(returns, market_returns, risk_free_rate);
\* market_returns is <<m>> for Some(m) and <<>> for None
calculate_financial_metrics(returns, market_returns, risk_free_rate) ==
    IF returns = <<>> THEN DefaultMetrics
    ELSE
    LET n == Len(returns) * Unit
        mean_return == FDiv(SumLoop(returns, 1, 0), n)
        spread == Deviations(returns, mean_return)
        denominator == IF n - Unit > Unit THEN n - Unit ELSE Unit
        variance == FDiv(SumLoop(Products(spread, spread), 1, 0), denominator)
        volatility == FMul(FSqrt(variance), SqrtTradingDays)
        daily_risk_free == FDiv(risk_free_rate, 252 * Unit)
        excess_return == FSub(mean_return, daily_risk_free)
        sharpe_ratio == IF variance # NonFinite /\ variance > 0
                        THEN FMul(FDiv(excess_return, FSqrt(variance)),
                                  SqrtTradingDays)
                        ELSE 0
        cumulative == CumulativeLoop(returns, 0, <<>>)
        max_drawdown == DrawdownLoop(cumulative, 1, NegInfinity, 0)
        with_market == /\ market_returns # <<>>
                       /\ Len(market_returns[1]) = Len(returns)
                       /\ Len(returns) > 1
        market == market_returns[1]
        market_mean == FDiv(SumLoop(market, 1, 0), Len(market) * Unit)
        market_spread == Deviations(market, market_mean)
        covariance == FDiv(SumLoop(Products(spread, market_spread), 1, 0),
                           n - Unit)
        market_variance ==
            FDiv(SumLoop(Products(market_spread, market_spread), 1, 0),
                 denominator)
        b == IF market_variance # NonFinite /\ market_variance > 0
             THEN FDiv(covariance, market_variance) ELSE Unit
        a == FSub(excess_return, FMul(b, FSub(market_mean, daily_risk_free)))
    IN [alpha |-> IF with_market THEN FMul(a, 252 * Unit) ELSE 0,
        beta |-> IF with_market THEN b ELSE Unit,
        sharpe_ratio |-> sharpe_ratio, volatility |-> volatility,
        max_drawdown |-> max_drawdown]

\* -------------------------------------------------------------- ecommerce

\* s + i of a u64 seed and a small i leaves the range of u64
SeedAddOverflows(s, i) == SaturatingAdd(s, i) # WrappingAdd(s, i)

\* config.seed.map(|s| s + i): a plain u64 addition, which past 2^64 - 1
\* panics in a build with overflow checks and wraps in one without
DerivedSeed(seed, i, overflow_checks) ==
    IF seed = NoSeed THEN [failed |-> FALSE, seed |-> NoSeed]
    ELSE [failed |-> overflow_checks /\ i > 0 /\ SeedAddOverflows(seed, i),
          seed |-> WrappingAdd(seed, i)]

\* the generators ecommerce(config) calls, in order, with what each adds to
\* config.seed before create_rng
Generators ==
    <<[name |-> "generate_catalog", offset |-> 0],
      [name |-> "generate_sessions", offset |-> 0],
      [name |-> "generate_cart_events", offset |-> 1],
      [name |-> "generate_orders", offset |-> 2],
      [name |-> "generate_customers", offset |-> 3],
      [name |-> "generate_funnel_events", offset |-> 4]>>

RECURSIVE EcommerceLoop(_, _, _, _)
\* ecommerce(config) as far as the random sources go: st.seeds are the
\* arguments of create_rng so far, k is the next generator
EcommerceLoop(st, k, c, overflow_checks) ==
    IF k > Len(Generators) THEN st
    ELSE IF Generators[k].name = "generate_funnel_events" /\ ~c.funnel.enable
    THEN st
    ELSE Eval(DerivedSeed(c.seed, Generators[k].offset, overflow_checks),
              LAMBDA d :
                IF d.failed THEN [st EXCEPT !.failed = TRUE]
                ELSE EcommerceLoop([st EXCEPT !.seeds = Append(@, d.seed)],
                                   k + 1, c, overflow_checks))

ecommerce(c, overflow_checks) ==
    EcommerceLoop([failed |-> FALSE, seeds |-> <<>>], 1, c, overflow_checks)

\* the stages of the funnel when config.funnel.stages is empty
DefaultStages ==
    <<"visit", "view_product", "add_to_cart", "checkout", "purchase">>

\* a - b of two usize values leaves the range of usize
SubOverflows(a, b) == ULess(a, b)

\* a.min(b) and a.max(b) of two usize values
UMin(a, b) == IF ULess(b, a) THEN b ELSE a

UMax(a, b) == IF ULess(a, b) THEN b ELSE a

\* max_stage of one session: 0 when bounced, the last stage when converted,
\* else (pages_viewed / 2).floor().min(stages.len() - 2).max(1), where the
\* subtraction is a plain usize subtraction
MaxStage(session, len, overflow_checks) ==
    IF session.bounced THEN [failed |-> FALSE, max_stage |-> 0]
    ELSE IF session.converted THEN [failed |-> FALSE, max_stage |-> len - 1]
    ELSE LET stage_estimate == session.pages_viewed \div 2
         IN [failed |-> overflow_checks /\ SubOverflows(len, 2),
             max_stage |-> UMax(UMin(stage_estimate, len - 2), 1)]

RECURSIVE StageLoop(_, _, _, _)
\* for (idx, &stage) in stages.iter().enumerate(); st.idx is the next index
StageLoop(st, stages, max_stage, session_number) ==
    IF st.idx >= Len(stages) \/ ULess(max_stage, st.idx) THEN st
    ELSE Eval(RngStep(st.rng), LAMBDA timed :
         Eval(RngStep(timed), LAMBDA named :
              StageLoop([rng |-> named, idx |-> st.idx + 1,
                         events |-> Append(st.events,
                             [event_id |-> named,
                              session |-> session_number,
                              stage |-> stages[st.idx + 1],
                              stage_number |-> st.idx,
                              time_in_stage_seconds |-> 10 + (timed % 110)])],
                        stages, max_stage, session_number)))

RECURSIVE FunnelLoop(_, _, _, _)
\* for session in sessions; st.k is the next session
FunnelLoop(st, sessions, stages, overflow_checks) ==
    IF st.k > Len(sessions) THEN st
    ELSE Eval(MaxStage(sessions[st.k], Len(stages), overflow_checks),
              LAMBDA m :
         IF m.failed THEN [st EXCEPT !.failed = TRUE]
         ELSE Eval(StageLoop([rng |-> st.rng, idx |-> 0, events |-> st.events],
                             stages, m.max_stage, st.k),
                   LAMBDA done :
                     FunnelLoop([rng |-> done.rng, events |-> done.events,
                                 k |-> st.k + 1, failed |-> FALSE],
                                sessions, stages, overflow_checks)))

\* generate_funnel_events(sessions, config)
generate_funnel_events(sessions, c, overflow_checks) ==
    LET d == DerivedSeed(c.seed, 4, overflow_checks)
        stages == IF c.funnel.stages = <<>> THEN DefaultStages
                  ELSE c.funnel.stages
    IN IF d.failed THEN [failed |-> TRUE, events |-> <<>>]
       ELSE Eval(FunnelLoop([rng |-> SeedFromU64(d.seed), events |-> <<>>,
                             k |-> 1, failed |-> FALSE],
                            sessions, stages, overflow_checks),
                 LAMBDA done : [failed |-> done.failed, events |-> done.events])

\* ------------------------------------------------------ streams at 2^31
\* The counters of an iterator around row 2^31: a usize count n is held as
\* n - 2^31, which keeps the order of the counts, so that the counts on both
\* sides of the range of i32 can be written down.

\* the count n, for 0 <= n <= I32Max
Count(n) == (n - I32Max) - 1

\* `n as i32` of a usize count below 2^32
CountAsI32(n) == IF n < 0 THEN (n + I32Max) + 1 ELSE (n - I32Max) - 1

\* remaining.min(chunk_size) with remaining = total_count - generated
ChunkLenOfCounts(it) ==
    IF it.generated + it.chunk_size <= it.total_count THEN it.chunk_size
    ELSE it.total_count - it.generated

\* Iterator::next of either iterator, as far as the counters and the row
\* ids go
NextRowIds(it) ==
    IF it.generated >= it.total_count
    THEN [some |-> FALSE, row_ids |-> <<>>, it |-> it]
    ELSE [some |-> TRUE,
          row_ids |-> [i \in 1..ChunkLenOfCounts(it) |->
                         CountAsI32(it.generated + (i - 1))],
          it |-> [it EXCEPT !.generated = @ + ChunkLenOfCounts(it)]]

\* ------------------------------------------------------------------ calls
\* Functions exercised on their own: the arguments are chosen, the function
\* runs in a build with or without overflow checks, and it returns or panics.

\* the buffers apply_event_windows is given
EventBuffers == {<<>>, <<250>>, <<0, 0, 0, 0>>, <<1000, 0 - 500, 250, 0>>}

\* the event windows: no event, one, overlapping ones, ones in descending
\* order, a repeated one, ones at and beyond the length of every buffer
EventConfigs ==
    [enable : BOOLEAN,
     event_indices : {<<>>, <<1>>, <<1, 2>>, <<3, 0>>, <<2, 2>>, <<4>>, <<5>>,
                      <<6, 1>>, <<UsizeMax>>, <<2, UsizeMax - 1>>},
     pre_event_window : 0..2, post_event_window : 0..1,
     abnormal_return_mean : {20}, abnormal_return_stddev : {0, 30}]

EventCalls ==
    [fn : {"apply_event_windows"}, x : {0, 1, 2, 3}, values : EventBuffers,
     config : EventConfigs]

RECURSIVE SeqsUpTo(_, _)
\* the sequences over S of length at most n
SeqsUpTo(S, n) ==
    IF n = 0 THEN {<<>>}
    ELSE LET shorter == SeqsUpTo(S, n - 1)
         IN shorter \cup { Append(q, v) : q \in shorter, v \in S }

\* return series of up to MaxPer values, without and with a market series of
\* the same or of another length
MetricsCalls ==
    [fn : {"calculate_financial_metrics"},
     returns : SeqsUpTo({0 - 500, 0, 250, 1000}, MaxPer),
     market_returns : {<<>>, <<<<250>>>>, <<<<250, 0 - 250>>>>,
                       <<<<20, 20, 20>>>>},
     risk_free_rate : {0, 20}]

\* seeds at both ends of the range of u64, and no seed
EcommerceCalls ==
    [fn : {"ecommerce"},
     config : [seed : {NoSeed, U64Zero, U64FortyTwo}
                      \cup { <<65535, 65535, 65535, low>> : low \in 65531..65535 },
               funnel : [enable : BOOLEAN]]]

\* the sessions generate_sessions can produce, as far as the funnel reads
\* them: bounced, converted or neither
FunnelSessions ==
    {[bounced |-> TRUE, converted |-> FALSE, pages_viewed |-> 1]}
    \cup [bounced : {FALSE}, converted : BOOLEAN, pages_viewed : {2, 3, 6, 51}]

FunnelCalls ==
    [fn : {"generate_funnel_events"},
     sessions : SeqsUpTo(FunnelSessions, MaxSessions),
     config : [seed : {U64FortyTwo},
               funnel : [stages : { SubSeq(DefaultStages, 1, n) : n \in 0..4 }]]]

CallArguments == EventCalls \cup MetricsCalls \cup EcommerceCalls \cup FunnelCalls

\* an iterator as constructed, for totals and chunk sizes from 0, and an
\* iterator that has yielded 2^31 - 2 rows in chunks of 1, 2 or 3 and has
\* up to 5 more to yield
IteratorStates ==
    [kind : Kinds, total_count : { Count(n) : n \in 0..MaxTotal },
     generated : {Count(0)}, chunk_size : 0..MaxChunk]
    \cup [kind : Kinds, total_count : (0 - 2)..3,
          generated : {0 - 2}, chunk_size : {1, 2, 3}]

CallInit ==
    /\ today = 200
    /\ \/ \E a \in CallArguments, overflow_checks \in BOOLEAN :
            kcall = [phase |-> "called", fn |-> a.fn, args |-> a,
                     overflow_checks |-> overflow_checks]
       \/ \E it \in IteratorStates :
            kcall = [phase |-> "streaming", fn |-> "next", it |-> it,
                     yielded |-> it.generated, before |-> it,
                     returned |-> "", row_ids |-> <<>>, ended |-> FALSE,
                     pulls |-> 0]
    /\ StreamIdle /\ ParIdle /\ SessIdle
    /\ ChainIdle /\ KernIdle /\ SeriesIdle /\ CfgdIdle

\* the call has run: it returned out, or it panicked
Ran(failed, out) ==
    [phase |-> IF failed THEN "panicked" ELSE "returned", fn |-> kcall.fn,
     args |-> kcall.args, overflow_checks |-> kcall.overflow_checks,
     out |-> out]

\* apply_event_windows(rng, values, config)
CallEventWindows ==
    /\ kcall.phase = "called"
    /\ kcall.fn = "apply_event_windows"
    /\ LET a == kcall.args
           r == EventWindows(SeriesRng(a.x), a.values, a.config,
                             kcall.overflow_checks)
       IN kcall' = Ran(r.failed, [values |-> r.values, draws |-> r.rng.n])
    /\ UNCHANGED <<today, streamVars, parVars, sessVars, chainVars, kernVars,
                   seriesVars, cfgdVars>>

\* calculate_financial_metrics(returns, market_returns, risk_free_rate)
CallMetrics ==
    /\ kcall.phase = "called"
    /\ kcall.fn = "calculate_financial_metrics"
    /\ LET a == kcall.args
       IN kcall' = Ran(FALSE, calculate_financial_metrics(
                                  a.returns, a.market_returns, a.risk_free_rate))
    /\ UNCHANGED <<today, streamVars, parVars, sessVars, chainVars, kernVars,
                   seriesVars, cfgdVars>>

\* ecommerce(config): the random source of each generator
CallEcommerce ==
    /\ kcall.phase = "called"
    /\ kcall.fn = "ecommerce"
    /\ LET r == ecommerce(kcall.args.config, kcall.overflow_checks)
       IN kcall' = Ran(r.failed, [seeds |-> r.seeds])
    /\ UNCHANGED <<today, streamVars, parVars, sessVars, chainVars, kernVars,
                   seriesVars, cfgdVars>>

\* generate_funnel_events(sessions, config)
CallFunnel ==
    /\ kcall.phase = "called"
    /\ kcall.fn = "generate_funnel_events"
    /\ LET r == generate_funnel_events(kcall.args.sessions, kcall.args.config,
                                       kcall.overflow_checks)
       IN kcall' = Ran(r.failed, [events |-> r.events])
    /\ UNCHANGED <<today, streamVars, parVars, sessVars, chainVars, kernVars,
                   seriesVars, cfgdVars>>

\* one call of next() on the iterator; yielded counts the rows handed out,
\* ended says that an earlier call has returned None
CallIteratorNext ==
    /\ kcall.phase = "streaming"
    /\ kcall.pulls < MaxPulls
    /\ LET r == NextRowIds(kcall.it)
       IN kcall' = [kcall EXCEPT
                      !.it = r.it, !.before = kcall.it,
                      !.returned = IF r.some THEN "some" ELSE "none",
                      !.row_ids = r.row_ids,
                      !.yielded = @ + Len(r.row_ids),
                      !.ended = @ \/ kcall.returned = "none",
                      !.pulls = @ + 1]
    /\ UNCHANGED <<today, streamVars, parVars, sessVars, chainVars, kernVars,
                   seriesVars, cfgdVars>>

CallNext ==
    \/ CallEventWindows
    \/ CallMetrics
    \/ CallEcommerce
    \/ CallFunnel
    \/ CallIteratorNext

SpecCalls == CallInit /\ [][CallNext]_vars


\* the indices (0-based) of the window of event number j in a buffer of
\* len values: [e - pre, e + post] intersected with [0, len)
WindowCells(c, len, j) ==
    LET e == c.event_indices[j] IN
    IF e < 0 THEN {}
    ELSE { i \in 0..(len - 1) :
             i + c.pre_event_window >= e /\ i <= e + c.post_event_window }

RECURSIVE CellsBefore(_, _, _)
\* the number of indices in the windows of the events before number j
CellsBefore(c, len, j) ==
    IF j <= 1 THEN 0
    ELSE CellsBefore(c, len, j - 1) + Cardinality(WindowCells(c, len, j - 1))

\* what event number j adds to index i: nothing outside its window, inside
\* it the next abnormal-return draw times 1 / (1 + 0.3 * |i - e|)
EventShare(x, c, len, j, i) ==
    LET cells == WindowCells(c, len, j)
        e == c.event_indices[j]
        earlier == CellsBefore(c, len, j) + Cardinality({h \in cells : h < i})
        draw == NormalSample(SeriesRng(RngAfter(x, earlier)),
                             c.abnormal_return_mean, c.abnormal_return_stddev)
        away == IF i >= e THEN i - e ELSE e - i
    IN IF i \in cells
       THEN FMul(draw.value, FDiv(Unit, Unit + 300 * away))
       ELSE 0

RECURSIVE SharesUpTo(_, _, _, _, _)
\* the sum of what the events 1..j add to index i
SharesUpTo(x, c, len, j, i) ==
    IF j = 0 THEN 0
    ELSE SharesUpTo(x, c, len, j - 1, i) + EventShare(x, c, len, j, i)

\* C25: apply_event_windows, when enabled, adds to every index of every
\* event's window one abnormal-return draw scaled by 1 / (1 + 0.3 * |i - e|),
\* the events taken in configured order and overlapping windows adding up;
\* indices outside all windows are unchanged, and no event index, at or
\* beyond the length included, makes the call fail or write out of range
C25_EventWindowsAdd ==
    (kcall.fn = "apply_event_windows" /\ kcall.phase # "called"
     /\ kcall.args.config.enable)
    => /\ kcall.phase = "returned"
       /\ LET a == kcall.args
              len == Len(a.values)
              m == Len(a.config.event_indices)
          IN /\ Len(kcall.out.values) = len
             /\ \A i \in 0..(len - 1) :
                  kcall.out.values[i + 1]
                      = a.values[i + 1] + SharesUpTo(a.x, a.config, len, m, i)
             /\ kcall.out.draws = CellsBefore(a.config, len, m + 1)

\* the same, in the build without overflow checks and for event indices
\* whose window sum stays in range in the other build
C25_WindowsInRange ==
    (kcall.fn = "apply_event_windows" /\ kcall.phase = "returned"
     /\ kcall.args.config.enable)
    => LET a == kcall.args
           len == Len(a.values)
           m == Len(a.config.event_indices)
       IN /\ Len(kcall.out.values) = len
          /\ \A i \in 0..(len - 1) :
               kcall.out.values[i + 1]
                   = a.values[i + 1] + SharesUpTo(a.x, a.config, len, m, i)
          /\ kcall.out.draws = CellsBefore(a.config, len, m + 1)

\* overlapping windows were applied to a buffer
C25_Overlap ==
    /\ kcall.fn = "apply_event_windows" /\ kcall.phase = "returned"
    /\ kcall.args.config.enable
    /\ kcall.args.config.event_indices = <<1, 2>>
    /\ kcall.args.config.pre_event_window = 2
    /\ Len(kcall.args.values) = 4


\* the running sum C of a return series: C[k] is returns[1] + .. + returns[k]
CumulativeOf(returns) == [k \in 1..Len(returns) |-> RunningSum(returns, k)]

\* the largest C[i] - C[j] over all i <= j
LargestFall(C) ==
    CHOOSE d \in { C[i] - C[j] : i \in 1..Len(C), j \in 1..Len(C) } \cup {0} :
        /\ \E j \in 1..Len(C) : \E i \in 1..j : d = C[i] - C[j]
        /\ \A j \in 1..Len(C) : \A i \in 1..j : d >= C[i] - C[j]

NonDecreasing(C) == \A k \in 1..(Len(C) - 1) : C[k] <= C[k + 1]

\* C26: for a non-empty return series max_drawdown is the maximum over all
\* i <= j of C_i - C_j, C the running sum of the returns; it is never
\* negative and is 0 exactly when C is non-decreasing; an empty series
\* gives the default metrics (alpha 0, beta 1, the rest 0)
C26_MaxDrawdown ==
    (kcall.fn = "calculate_financial_metrics" /\ kcall.phase # "called")
    => /\ kcall.phase = "returned"
       /\ LET returns == kcall.args.returns
              C == CumulativeOf(returns)
          IN IF returns = <<>>
             THEN kcall.out = [alpha |-> 0, beta |-> Unit, sharpe_ratio |-> 0,
                               volatility |-> 0, max_drawdown |-> 0]
             ELSE /\ kcall.out.max_drawdown = LargestFall(C)
                  /\ kcall.out.max_drawdown >= 0
                  /\ kcall.out.max_drawdown = 0 <=> NonDecreasing(C)

\* a series that falls after a peak below zero was measured
C26_Witness ==
    /\ kcall.fn = "calculate_financial_metrics" /\ kcall.phase = "returned"
    /\ kcall.args.returns = <<0 - 500, 250, 0 - 500>>
    /\ kcall.out.max_drawdown = 500


\* a < b of two u64 values
U64Less(a, b) ==
    \E k \in 1..4 : a[k] < b[k] /\ \A h \in 1..(k - 1) : a[h] = b[h]

\* what each sub-generator adds to the seed: nothing for the catalog and the
\* sessions, 1 for cart events, 2 for orders, 3 for customers, 4 for funnel
\* events
SeedOffsets == <<0, 0, 1, 2, 3, 4>>

\* C27: for every seed in [0, 2^64 - 1] ecommerce(config) derives the seeds
\* of its sub-generators (cart events seed + 1, orders seed + 2, customers
\* seed + 3, funnel events seed + 4) without arithmetic overflow, and no
\* seed makes the call fail
C27_SeedsWithoutOverflow ==
    (kcall.fn = "ecommerce" /\ kcall.phase # "called")
    => /\ kcall.phase = "returned"
       /\ LET c == kcall.args.config
              seeds == kcall.out.seeds
          IN /\ Len(seeds) = IF c.funnel.enable THEN 6 ELSE 5
             /\ c.seed # NoSeed =>
                  \A k \in 1..Len(seeds) :
                     /\ seeds[k] = U64Plus(c.seed, SeedOffsets[k])
                     /\ ~U64Less(seeds[k], c.seed)

\* the same for the seeds that are at least 4 below 2^64 - 1
C27_SeedsInRange ==
    (kcall.fn = "ecommerce" /\ kcall.phase # "called"
     /\ (kcall.args.config.seed = NoSeed
         \/ U64Less(kcall.args.config.seed, <<65535, 65535, 65535, 65532>>)))
    => /\ kcall.phase = "returned"
       /\ LET c == kcall.args.config
              seeds == kcall.out.seeds
          IN /\ Len(seeds) = IF c.funnel.enable THEN 6 ELSE 5
             /\ \A k \in 1..Len(seeds) :
                  seeds[k] = IF c.seed = NoSeed THEN NoSeed
                             ELSE U64Plus(c.seed, SeedOffsets[k])

\* the stage numbers of the events of session number n, in emission order
StageNumbers(events, n) ==
    LET own == SelectSeq(events, LAMBDA e : e.session = n)
    IN [k \in 1..Len(own) |-> own[k].stage_number]

\* C28: for every non-empty list of funnel stages and every session,
\* generate_funnel_events emits the stage numbers 0, 1, .., k consecutively
\* and never fails; k = 0 exactly for bounced sessions, k is the last stage
\* index for converted sessions, and a session neither bounced nor converted
\* gets no event for the final stage
C28_FunnelStages ==
    (kcall.fn = "generate_funnel_events" /\ kcall.phase # "called")
    => /\ kcall.phase = "returned"
       /\ LET sessions == kcall.args.sessions
              given == kcall.args.config.funnel.stages
              last == Len(IF given = <<>> THEN DefaultStages ELSE given) - 1
          IN \A n \in 1..Len(sessions) :
               LET numbers == StageNumbers(kcall.out.events, n)
                   k == Len(numbers) - 1
               IN /\ k >= 0
                  /\ \A h \in 1..Len(numbers) : numbers[h] = h - 1
                  /\ k = 0 <=> sessions[n].bounced
                  /\ sessions[n].converted => k = last
                  /\ ~sessions[n].bounced /\ ~sessions[n].converted => k < last

\* the same for lists of at least three stages (and the default list)
C28_ThreeStages ==
    (kcall.fn = "generate_funnel_events" /\ kcall.phase # "called"
     /\ Len(kcall.args.config.funnel.stages) \notin {1, 2})
    => /\ kcall.phase = "returned"
       /\ LET sessions == kcall.args.sessions
              given == kcall.args.config.funnel.stages
              last == Len(IF given = <<>> THEN DefaultStages ELSE given) - 1
          IN \A n \in 1..Len(sessions) :
               LET numbers == StageNumbers(kcall.out.events, n)
                   k == Len(numbers) - 1
               IN /\ k >= 0
                  /\ \A h \in 1..Len(numbers) : numbers[h] = h - 1
                  /\ k = 0 <=> sessions[n].bounced
                  /\ sessions[n].converted => k = last
                  /\ ~sessions[n].bounced /\ ~sessions[n].converted => k < last


\* C29: every session generate_sessions pushes satisfies: bounced implies
\* pages_viewed = 1, not converted and total_value = 0; converted implies
\* not bounced, the last chain step returned 'purchase' and
\* 20 <= total_value < 220; not converted implies total_value = 0
C29_SessionFields ==
    (sess.pc = "idle" /\ nsessions > 0)
    => /\ sess.bounced => /\ sess.pages_viewed = 1
                          /\ ~sess.converted
                          /\ sess.total_value = 0
       /\ sess.converted => /\ ~sess.bounced
                            /\ sess.state_name = "purchase"
                            /\ 20 * Scale <= sess.total_value
                            /\ sess.total_value < 220 * Scale
       /\ ~sess.converted => sess.total_value = 0

\* a converted session with the largest order value was pushed as the second
\* session of the call
C29_Witness ==
    /\ sess.pc = "idle" /\ nsessions = 2
    /\ sess.converted /\ sess.total_value = OrderValue(9999)
    /\ sess.pages_viewed > 2


\* C30: at every point of a stream's life generated is the number of rows
\* yielded so far and is at most total_count, and the k-th row yielded
\* overall, counting from 0, has row_id k; once next has returned None
\* every further call returns None and changes no state
C30_CounterAndRowIds ==
    kcall.fn = "next"
    => /\ kcall.it.generated = kcall.yielded
       /\ kcall.it.generated <= kcall.it.total_count
       /\ \A h \in 1..Len(kcall.row_ids) :
            /\ kcall.row_ids[h] >= 0
            /\ Count(kcall.row_ids[h]) = kcall.before.generated + (h - 1)
       /\ kcall.ended => kcall.returned = "none" /\ kcall.it = kcall.before

\* the same for the rows before row 2^31
C30_BelowI32Max ==
    kcall.fn = "next"
    => /\ kcall.it.generated = kcall.yielded
       /\ kcall.it.generated <= kcall.it.total_count
       /\ \A h \in 1..Len(kcall.row_ids) :
            kcall.before.generated + (h - 1) < 0
            => /\ kcall.row_ids[h] >= 0
               /\ Count(kcall.row_ids[h]) = kcall.before.generated + (h - 1)
       /\ kcall.ended => kcall.returned = "none" /\ kcall.it = kcall.before

====
